---------------------------- MODULE Spec2Model ----------------------------
(***************************************************************************)
(* Umbra: the incremental change-impact and diagram-update pipeline.       *)
(*                                                                         *)
(*   - DependencyGraph and ChangeTracker   (umbra/agents/tracker.py)       *)
(*   - DebouncedHandler                    (umbra/watcher/file_watcher.py) *)
(*   - the diagram pipeline                (umbra/agents/orchestrator.py,  *)
(*     analyst.py, surgeon.py, validators/mermaid.py) and its two callers  *)
(*     in umbra/main.py (watch.process_change, do_initial_scan)            *)
(*                                                                         *)
(* Each component has its own specification over the shared variables; a   *)
(* component's actions leave the other components' variables unchanged.    *)
(***************************************************************************)
EXTENDS Naturals, Integers, Sequences, FiniteSets, TLC

VARIABLES
    \* DependencyGraph / ChangeTracker (tracker.py)
    imports,        \* DependencyGraph.imports      : dict path -> set of module refs
    imported_by,    \* DependencyGraph.imported_by  : dict module ref -> set of paths
    changes,        \* ChangeTracker.changes        : list of TrackedChange
    initialized,    \* ChangeTracker._initialized
    \* one call of ChangeTracker._calculate_impact_level
    impacts,        \* its argument: a list of FileImpact
    impact_level,   \* what it returned ("unset" before it returns)
    \* one call of ChangeTracker._detect_intent
    intent_args,    \* its arguments: [file_path, diff_lines, stats]
    intent,         \* what it returned ("unset" before it returns)
    \* one call of validate_mermaid
    mermaid_arg,    \* its argument, mermaid
    validation,     \* the ValidationResult it returned (before it returns: not
                    \* valid, and no error)
    \* one call of DependencyGraph.get_dependents, statement by statement
    q_pc,           \* "idle" | "loop" | "done"
    q_path,         \* the file_path argument
    dependents,     \* local: dependents
    to_check,       \* local: to_check (a list used as a stack)
    \* DebouncedHandler and its threads (file_watcher.py)
    now,            \* the clock, in seconds
    pending_events, \* DebouncedHandler._pending_events: an insertion-ordered dict
    timer,          \* DebouncedHandler._timer: a Timer (its number) or None (0)
    timers,         \* every threading.Timer created so far, by number
    obs_pc,       \* the observer thread in _handle_event: "idle" | "schedule"
    src_path,       \* its src_path argument (no path when idle)
    running,        \* the timer threads that are inside self.callback(event)
    fs_exists,      \* the watched files that exist on disk
    raw_stat,       \* per path, the raw events accepted so far: how many, the
                    \* last one's type and arrival time, and whether each came
                    \* less than debounce_seconds after the one before
    raw_seen,       \* the raw events the observer has delivered to the handler so far
    emitted,        \* the calls of self.callback made so far, in order
    \* UmbraWatcher and the thread that calls start() and stop()
    observer,       \* UmbraWatcher._observer: "none" | "alive"
    has_handler,    \* UmbraWatcher._handler is not None
    gen_start,      \* the timers numbered up to here belong to an earlier handler
    old_pending,    \* _pending_events of that earlier handler
    api_pc,         \* the calling thread: "idle" | "stop_cancel" (inside stop())
    api_result,     \* how the last call ended: "none" | "started" | "RuntimeError" | "stopped"
    stop_mark,      \* the length of emitted when stop() last returned
    calls,          \* start() and stop() calls made so far
    \* the pipeline (orchestrator.py) and its callers (main.py)
    p_pc,           \* "idle" | the node about to run | "end" | "raised"
    caller,         \* "start" | "idle" | "watch" | "scan_loop" | "scan"
    graph_state,    \* the GraphState dict of the invocation
    outcome,        \* "none" | "Written" | "Skipped" | "Aborted" | "Raised"
    persisted,      \* the diagram in the output file
    before,         \* the diagram in the output file when graph.invoke was called
    surgeon_calls,  \* llm.invoke calls made by surgeon_node in this invocation
    prompt,         \* the values surgeon_node put in the prompt of its last llm.invoke
    scan_mermaid,   \* do_initial_scan's local current_mermaid
    scan_left,      \* files do_initial_scan has yet to process
    runs            \* graph.invoke calls made so far

graphVars == <<imports, imported_by>>
callVars == <<intent_args, intent, mermaid_arg, validation>>
trackerVars == <<changes, initialized, impacts, impact_level, callVars>>
queryVars == <<q_pc, q_path, dependents, to_check>>
lifecycleVars ==
    <<observer, has_handler, gen_start, old_pending, api_pc, api_result, stop_mark, calls>>

watcherVars ==
    <<now, pending_events, timer, timers, obs_pc, src_path, running, fs_exists, raw_stat, raw_seen, emitted,
      lifecycleVars>>

pipelineVars ==
    <<p_pc, caller, graph_state, outcome, persisted, before, surgeon_calls, prompt, scan_mermaid,
      scan_left, runs>>

vars == <<imports, imported_by, changes, initialized, impacts, impact_level, callVars,
          q_pc, q_path, dependents, to_check,
          now, pending_events, timer, timers, obs_pc, src_path, running, fs_exists, raw_stat, raw_seen,
          emitted,
          observer, has_handler, gen_start, old_pending, api_pc, api_result, stop_mark,
          calls,
          p_pc, caller, graph_state, outcome, persisted, before, surgeon_calls, prompt,
          scan_mermaid, scan_left, runs>>

-----------------------------------------------------------------------------
(* Bounds of the model.                                                    *)

NumNames == 3          \* strings used as file paths and as module references
NumGraphNames == 2     \* those of them used by the bare DependencyGraph calls
MaxImpacts == 7        \* entries of the lists handed to _calculate_impact_level
MaxHistory == 51        \* track_change calls of one long session
MaxDiffLines == 2      \* lines of the diffs handed to _detect_intent
MaxLines == 3          \* lines of the texts handed to validate_mermaid
MaxEdges == 4          \* reverse edges of the graphs handed to get_dependents
MaxCalls == 3          \* start() and stop() calls in one behaviour
MaxChanges == 2        \* track_change calls per session
MaxRaw == 3            \* raw filesystem events accepted by the handler
MaxRuns == 3          \* graph.invoke calls in one behaviour
MaxScanFiles == 2     \* code files found by the initial scan
MaxTime == 4           \* seconds on the clock
MaxDeletes == 1        \* deleted events handled by process_change

NameList == <<"a", "b", "c", "d", "e", "f">>
Names == {NameList[i] : i \in 1..NumNames}
GraphNames == {NameList[i] : i \in 1..NumGraphNames}

\* A Python dict with no key.
EmptyDict == [k \in {} |-> {}]

\* The elements of a finite set, as a list in some order (Python iterates a
\* set in an order the program does not choose).
RECURSIVE SetToSeq(_)
SetToSeq(S) ==
    IF S = {} THEN <<>>
    ELSE LET x == CHOOSE y \in S : TRUE IN <<x>> \o SetToSeq(S \ {x})

\* dict.get(key, set())
Get(d, k) == IF k \in DOMAIN d THEN d[k] ELSE {}

-----------------------------------------------------------------------------
(* File contents.  A content is described by what the code reads from it:  *)
(* whether it is None, the empty string or a text (kind); the modules      *)
(* named by import statements at the start of a line (top) and by indented *)
(* import statements (nested); whether ast.parse accepts the text          *)
(* (parses); whether a hard-coded-secret pattern matches it (secret).      *)

Source(top, nested, parses, secret) ==
    [kind |-> "text", top |-> top, nested |-> nested, parses |-> parses,
     secret |-> secret]

EmptySource ==
    [kind |-> "empty", top |-> {}, nested |-> {}, parses |-> TRUE,
     secret |-> FALSE]

NoneSource ==
    [kind |-> "none", top |-> {}, nested |-> {}, parses |-> TRUE,
     secret |-> FALSE]

\* Python truthiness of an Optional[str]
Truthy(content) == content.kind = "text"

AtMostOne(S) == {x \in SUBSET S : Cardinality(x) <= 1}

\* Texts over the module names S: at most one import at the start of a line,
\* at most one indented import; a text that parses, or one that does not.
ContentsOver(S) ==
    { Source(t, n, p, FALSE) : t \in AtMostOne(S), n \in AtMostOne(S), p \in BOOLEAN }

\* DependencyGraph._extract_imports: ast.walk finds every import of a text
\* that parses; on SyntaxError the regex ^(from|import) finds only those at
\* the start of a line.
extract_imports(content) ==
    IF content.parses THEN content.top \cup content.nested ELSE content.top

-----------------------------------------------------------------------------
(* DependencyGraph.  A graph value g is [imports, imported_by].            *)

\* add_file with "add" on the reverse index replaced by a toggle.
add_file_toggle(g, file_path, content) ==
    LET imps == extract_imports(content) IN
    [imports |->
        [p \in DOMAIN g.imports \cup {file_path} |->
            IF p = file_path THEN imps ELSE g.imports[p]],
     imported_by |->
        [m \in DOMAIN g.imported_by \cup imps |->
            IF m \in imps
            THEN IF file_path \in Get(g.imported_by, m)
                 THEN Get(g.imported_by, m) \ {file_path}
                 ELSE Get(g.imported_by, m) \cup {file_path}
            ELSE g.imported_by[m]]]

\* DependencyGraph.add_file
add_file(g, file_path, content) ==
    LET imps == extract_imports(content) IN
    [imports |->
        [p \in DOMAIN g.imports \cup {file_path} |->
            IF p = file_path THEN imps ELSE g.imports[p]],
     imported_by |->
        [m \in DOMAIN g.imported_by \cup imps |->
            IF m \in imps THEN Get(g.imported_by, m) \cup {file_path}
                          ELSE g.imported_by[m]]]

\* DependencyGraph.remove_file
remove_file(g, file_path) ==
    [imports |-> [p \in DOMAIN g.imports \ {file_path} |-> g.imports[p]],
     imported_by |->
        [m \in DOMAIN g.imported_by \ {file_path} |->
            g.imported_by[m] \ {file_path}]]

\* get_dependents_loop without "to_check.append(dep)": the direct dependents
\* only.
get_dependents_loop_direct_only(ib, st) ==
    LET n       == Len(st.to_check)
        current == st.to_check[n]
        direct  == Get(ib, current)
        fresh   == {dep \in direct : dep \notin st.dependents}
    IN  [dependents |-> st.dependents \cup fresh,
         to_check   |-> SubSeq(st.to_check, 1, n - 1)]

\* get_dependents_loop counting the popped path among the dependents.
get_dependents_loop_with_current(ib, st) ==
    LET n       == Len(st.to_check)
        current == st.to_check[n]
        direct  == Get(ib, current)
        fresh   == {dep \in direct : dep \notin st.dependents}
    IN  [dependents |-> st.dependents \cup fresh \cup {current},
         to_check   |-> SubSeq(st.to_check, 1, n - 1) \o SetToSeq(fresh)]

\* get_dependents_loop without the test "if dep not in dependents".
get_dependents_loop_unguarded(ib, st) ==
    LET n       == Len(st.to_check)
        current == st.to_check[n]
        direct  == Get(ib, current)
    IN  [dependents |-> st.dependents \cup direct,
         to_check   |-> SubSeq(st.to_check, 1, n - 1) \o SetToSeq(direct)]

\* The body of the while loop of DependencyGraph.get_dependents, on the
\* locals st = [dependents, to_check]: pop the last element, then add and
\* push each of its direct dependents that is not in dependents yet.
get_dependents_loop(ib, st) ==
    LET n       == Len(st.to_check)
        current == st.to_check[n]
        direct  == Get(ib, current)
        fresh   == {dep \in direct : dep \notin st.dependents}
    IN  [dependents |-> st.dependents \cup fresh,
         to_check   |-> SubSeq(st.to_check, 1, n - 1) \o SetToSeq(fresh)]

RECURSIVE get_dependents_run(_, _)
get_dependents_run(ib, st) ==
    IF st.to_check = <<>> THEN st.dependents
    ELSE get_dependents_run(ib, get_dependents_loop(ib, st))

\* DependencyGraph.get_dependents
get_dependents(ib, file_path) ==
    get_dependents_run(ib, [dependents |-> {}, to_check |-> <<file_path>>])

Graph == [imports |-> imports, imported_by |-> imported_by]

-----------------------------------------------------------------------------
(* The DependencyGraph on its own: any sequence of add_file and            *)
(* remove_file calls on a new graph.                                       *)

\* A path, as pathlib reads it: its parts and its suffix.
PathOf(parts, suffix) == [parts |-> parts, suffix |-> suffix]

NoPath == PathOf(<<>>, "")

CallIdle ==
    /\ intent_args = <<>> /\ intent = "unset" /\ mermaid_arg = <<>>
    /\ validation = [is_valid |-> FALSE, errors |-> <<>>, warnings |-> <<>>]
TrackerIdle ==
    /\ changes = <<>> /\ initialized = FALSE /\ impacts = <<>> /\ impact_level = "unset"
    /\ CallIdle
QueryIdle == q_pc = "idle" /\ q_path = "" /\ dependents = {} /\ to_check = <<>>
WatcherIdle ==
    /\ now = 0
    /\ pending_events = <<>>
    /\ timer = 0
    /\ timers = <<>>
    /\ obs_pc = "idle"
    /\ src_path = NoPath
    /\ running = {}
    /\ fs_exists = {}
    /\ raw_stat = <<>>
    /\ raw_seen = 0
    /\ emitted = <<>>
    /\ observer = "none"
    /\ has_handler = FALSE
    /\ gen_start = 0
    /\ old_pending = <<>>
    /\ api_pc = "idle"
    /\ api_result = "none"
    /\ stop_mark = 0
    /\ calls = 0

\* Diagram texts: a str is the list of its lines, a line the list of its
\* tokens; None has no lines.
Text(lines) == [kind |-> "text", lines |-> lines]
NoneText == [kind |-> "none", lines |-> <<>>]
EmptyText == Text(<< <<>> >>)

\* state.py: INITIAL_DIAGRAM (a quoted label is one token)
INITIAL_DIAGRAM ==
    Text(<< <<"graph", " ", "LR">>,
            <<" ", "subgraph", " ", "Core", "[", "Core Services", "]">>,
            <<" ", "App", "[", "Application", "]">>,
            <<" ", "end">>,
            <<>>,
            <<" ", "subgraph", " ", "External", "[", "External APIs", "]">>,
            <<" ", "end">>,
            <<>>,
            <<" ", "subgraph", " ", "Data", "[", "Data Stores", "]">>,
            <<" ", "end">>,
            <<>> >>)

NoAnalysis == [kind |-> "none", is_structural_change |-> FALSE, change_type |-> "none"]

NoError == [kind |-> "none", errors |-> <<>>]
ErrorMsg(errors) == [kind |-> "str", errors |-> errors]

\* The dict handed to graph.invoke: the keys it does not set read as their
\* .get() defaults.
InitialState(current_mermaid) ==
    [current_mermaid |-> current_mermaid,
     analysis_result |-> NoAnalysis,
     updated_mermaid |-> NoneText,
     is_valid_mermaid |-> FALSE,
     validation_error |-> NoError,
     retry_count |-> 0]

PipelineIdle ==
    /\ p_pc = "idle"
    /\ caller = "start"
    /\ graph_state = InitialState(INITIAL_DIAGRAM)
    /\ outcome = "none"
    /\ persisted = INITIAL_DIAGRAM
    /\ before = INITIAL_DIAGRAM
    /\ surgeon_calls = 0
    /\ prompt = <<>>
    /\ scan_mermaid = INITIAL_DIAGRAM
    /\ scan_left = 0
    /\ runs = 0

GraphInit ==
    /\ imports = EmptyDict
    /\ imported_by = EmptyDict
    /\ TrackerIdle
    /\ QueryIdle
    /\ WatcherIdle
    /\ PipelineIdle

AddFile(file_path, content) ==
    /\ imports' = add_file(Graph, file_path, content).imports
    /\ imported_by' = add_file(Graph, file_path, content).imported_by
    /\ UNCHANGED <<trackerVars, queryVars, watcherVars, pipelineVars>>

RemoveFile(file_path) ==
    /\ imports' = remove_file(Graph, file_path).imports
    /\ imported_by' = remove_file(Graph, file_path).imported_by
    /\ UNCHANGED <<trackerVars, queryVars, watcherVars, pipelineVars>>

GraphNext ==
    \/ \E p \in GraphNames, c \in ContentsOver(GraphNames) : AddFile(p, c)
    \/ \E p \in GraphNames : RemoveFile(p)

SpecGraph == GraphInit /\ [][GraphNext]_vars

-----------------------------------------------------------------------------
(* ChangeTracker.                                                          *)

\* Path(file_path).name.lower() of the paths of the model; none of them
\* holds "test" or "config" or is ".env" or "settings.py".
NameHasTest(file_path) == file_path \in {"test_a", "a_test", "test_config"}
NameIsConfig(file_path) == file_path \in {"config_a", ".env", "settings.py", "test_config"}

\* file_path.endswith(".py"): the model's paths name Python files.
EndsWithPy(file_path) == file_path \in Names

\* A diff: diff_lines is a list of [line, type]; a line is "fix" when its text
\* holds one of the bug-fix keywords; stats holds the two line counts.
Diff(lines, added, removed) ==
    [lines |-> lines, stats |-> [added |-> added, removed |-> removed]]

NoDiff == Diff(<<>>, 0, 0)

SomeDiff ==
    Diff(<<[line |-> "code", type |-> "add"], [line |-> "code", type |-> "add"]>>, 2, 0)

\* ChangeTracker._analyze_impact: one FileImpact per dependent.  The list is
\* built in the iteration order of a set, so it is modelled as a set.
analyze_impact(g, file_path, change_type) ==
    { [file_path   |-> dep,
       impact_type |-> IF change_type = "deleted" THEN "broken_import" ELSE "imports"]
      : dep \in get_dependents(g.imported_by, file_path) }

\* _calculate_impact_level without its test for broken imports.
calculate_impact_level_by_count(list) ==
    LET count == Len(list) IN
         IF count = 0 THEN "none"
         ELSE IF count <= 2 THEN "low"
         ELSE IF count <= 5 THEN "medium"
         ELSE "high"

\* ChangeTracker._calculate_impact_level, on the list it is given.
calculate_impact_level(list) ==
    IF \E k \in 1..Len(list) : list[k].impact_type = "broken_import" THEN "critical"
    ELSE LET count == Len(list) IN
         IF count = 0 THEN "none"
         ELSE IF count <= 2 THEN "low"
         ELSE IF count <= 5 THEN "medium"
         ELSE "high"

\* ChangeTracker._detect_intent.  0.8 <= added/removed <= 1.2 is computed on
\* integers as 4*removed <= 5*added /\ 5*added <= 6*removed.
detect_intent(file_path, diff_lines, stats) ==
    LET added_has_keyword ==
            \E k \in 1..Len(diff_lines) :
                diff_lines[k].type = "add" /\ diff_lines[k].line = "fix"
    IN
    IF NameHasTest(file_path) THEN "feature"
    ELSE IF NameIsConfig(file_path) THEN "config"
    ELSE IF added_has_keyword THEN "bugfix"
    ELSE IF /\ stats.added > 0 /\ stats.removed > 0
            /\ 4 * stats.removed <= 5 * stats.added
            /\ 5 * stats.added <= 6 * stats.removed THEN "refactor"
    ELSE IF stats.removed > stats.added * 2 THEN "cleanup"
    ELSE IF stats.added > stats.removed THEN "feature"
    ELSE "unknown"

\* ChangeTracker._generate_description with _llm_description.  llm is what
\* the description generator does: "unavailable" (no api_key), "error" (the
\* call raises) or "ok".
generate_description(file_path, change_type, diff_lines, stats, llm) ==
    IF change_type = "created" THEN <<"New file created", file_path>>
    ELSE IF change_type = "deleted" THEN <<"File deleted", file_path>>
    ELSE IF llm # "unavailable" /\ diff_lines # <<>> /\ llm = "ok"
         THEN <<"llm", file_path>>
    ELSE <<"Modified", file_path, stats.added, stats.removed>>

\* ChangeTracker._detect_warnings, on the graph as it is when it is called.
detect_warnings(g, file_path, change_type, new_content) ==
    LET direct == Get(g.imported_by, file_path)
        breaking ==
            IF change_type = "deleted" /\ direct # {}
            THEN << <<"BREAKING", Cardinality(direct)>> >> ELSE <<>>
        syntax ==
            IF Truthy(new_content) /\ EndsWithPy(file_path) /\ ~new_content.parses
            THEN << <<"SYNTAX ERROR">> >> ELSE <<>>
        security ==
            IF Truthy(new_content) /\ new_content.secret
            THEN << <<"SECURITY">> >> ELSE <<>>
    IN  breaking \o syntax \o security

\* The graph update at the head of ChangeTracker.track_change.
update_graph(g, file_path, change_type, new_content) ==
    IF change_type = "deleted" THEN remove_file(g, file_path)
    ELSE IF Truthy(new_content) THEN add_file(g, file_path, new_content)
    ELSE g

\* ChangeTracker.track_change: the graph it leaves and the TrackedChange it
\* returns.  Every step after the graph update reads the updated graph.
track_change(g, file_path, change_type, new_content, diff, llm) ==
    LET g2 == update_graph(g, file_path, change_type, new_content)
        impacted_files == analyze_impact(g2, file_path, change_type)
    IN  [graph |-> g2,
         change |->
            [file_path      |-> file_path,
             change_type    |-> change_type,
             intent         |-> detect_intent(file_path, diff.lines, diff.stats),
             description    |-> generate_description(file_path, change_type,
                                                     diff.lines, diff.stats, llm),
             lines_added    |-> diff.stats.added,
             lines_removed  |-> diff.stats.removed,
             impacted_files |-> impacted_files,
             impact_level   |-> calculate_impact_level(SetToSeq(impacted_files)),
             warnings       |-> detect_warnings(g2, file_path, change_type, new_content)]]

\* Contents handed to the tracker: no import or one, at the start of a line;
\* one text that does not parse and one that holds a secret; the empty text.
ImportContents == { Source(t, {}, TRUE, FALSE) : t \in AtMostOne(Names) }

TrackerContents ==
    ImportContents
        \cup { Source({}, {}, FALSE, FALSE), Source({}, {}, TRUE, TRUE), EmptySource }

\* The module after a name, in a ring.
NextName(n) ==
    LET k == CHOOSE j \in 1..NumNames : NameList[j] = n
    IN  NameList[(k % NumNames) + 1]

\* A project snapshot: some of the files, each importing no module or the
\* next one of the ring.
Snapshots ==
    UNION { [S -> {Source({}, {}, TRUE, FALSE)}
                    \cup {Source({m}, {}, TRUE, FALSE) : m \in Names}]
            : S \in SUBSET Names }

RingSnapshots ==
    { files \in Snapshots :
        \A f \in DOMAIN files : files[f].top \subseteq {NextName(f)} }

\* initialize with its loop left after the first file.
add_files_first_only(g, files, todo) ==
    IF todo = {} THEN g
    ELSE LET f == CHOOSE x \in todo : TRUE
         IN  add_file(g, f, files[f])

RECURSIVE add_files(_, _, _)
add_files(g, files, todo) ==
    IF todo = {} THEN g
    ELSE LET f == CHOOSE x \in todo : TRUE
         IN  add_files(add_file(g, f, files[f]), files, todo \ {f})

TrackerInit ==
    /\ imports = EmptyDict
    /\ imported_by = EmptyDict
    /\ changes = <<>>
    /\ initialized = FALSE
    /\ impacts = <<>>
    /\ impact_level = "unset"
    /\ CallIdle
    /\ QueryIdle
    /\ WatcherIdle
    /\ PipelineIdle

\* ChangeTracker.initialize, called once before the first change.
Initialize(files) ==
    /\ ~initialized
    /\ changes = <<>>
    /\ imports' = add_files(Graph, files, DOMAIN files).imports
    /\ imported_by' = add_files(Graph, files, DOMAIN files).imported_by
    /\ initialized' = TRUE
    /\ UNCHANGED <<changes, impacts, impact_level, callVars, queryVars, watcherVars, pipelineVars>>

\* ChangeTracker.track_change
TrackChange(file_path, change_type, new_content, diff, llm) ==
    /\ Len(changes) < MaxChanges
    /\ LET r == track_change(Graph, file_path, change_type, new_content, diff, llm)
       IN  /\ imports' = r.graph.imports
           /\ imported_by' = r.graph.imported_by
           /\ changes' = Append(changes, r.change)
    /\ UNCHANGED <<initialized, impacts, impact_level, callVars, queryVars, watcherVars, pipelineVars>>

TrackerNext ==
    \/ \E files \in RingSnapshots : Initialize(files)
    \/ \E p \in Names, c \in TrackerContents :
            TrackChange(p, "created", c, NoDiff, "unavailable")
    \/ \E p \in Names, c \in ImportContents :
            TrackChange(p, "modified", c, NoDiff, "unavailable")
    \/ \E p \in Names, llm \in {"unavailable", "error", "ok"} :
            TrackChange(p, "modified", Source({}, {}, TRUE, FALSE), SomeDiff, llm)
    \/ \E p \in Names : TrackChange(p, "deleted", NoneSource, NoDiff, "unavailable")

SpecTracker == TrackerInit /\ [][TrackerNext]_vars

-----------------------------------------------------------------------------
(* A long session of the ChangeTracker: after initialize, one file is      *)
(* modified again and again.                                               *)

\* main.py: MAX_RECENT_CHANGES, the length kept by add_recent_change.
MAX_RECENT_CHANGES == 50

\* ChangeTracker.track_change for one more modification of the first file.
TrackAgain ==
    /\ Len(changes) < MaxHistory
    /\ LET r == track_change(Graph, NameList[1], "modified", Source({}, {}, TRUE, FALSE),
                             SomeDiff, "unavailable")
       IN  /\ imports' = r.graph.imports
           /\ imported_by' = r.graph.imported_by
           /\ changes' = Append(changes, r.change)
    /\ UNCHANGED <<initialized, impacts, impact_level, callVars, queryVars, watcherVars, pipelineVars>>

HistoryNext ==
    \/ \E files \in RingSnapshots : Initialize(files)
    \/ TrackAgain

SpecHistory == TrackerInit /\ [][HistoryNext]_vars

-----------------------------------------------------------------------------
(* One call of ChangeTracker._calculate_impact_level, on any list of at    *)
(* most MaxImpacts FileImpact.                                             *)

\* Lists of FileImpact, without their descriptions.
ImpactLists ==
    LET FileImpacts == [file_path : {NameList[1]}, impact_type : {"imports", "broken_import"}]
    IN  UNION {[1..n -> FileImpacts] : n \in 0..MaxImpacts}

ImpactInit ==
    /\ impacts \in ImpactLists
    /\ impact_level = "unset"
    /\ CallIdle
    /\ imports = EmptyDict
    /\ imported_by = EmptyDict
    /\ changes = <<>>
    /\ initialized = FALSE
    /\ QueryIdle
    /\ WatcherIdle
    /\ PipelineIdle

CalculateImpactLevel ==
    /\ impact_level = "unset"
    /\ impact_level' = calculate_impact_level(impacts)
    /\ UNCHANGED <<impacts, changes, initialized, callVars, graphVars, queryVars,
                   watcherVars, pipelineVars>>

SpecImpact == ImpactInit /\ [][CalculateImpactLevel]_vars

-----------------------------------------------------------------------------
(* One call of ChangeTracker._detect_intent, on a file name, a diff of at  *)
(* most MaxDiffLines lines and two line counts.                            *)

IntentInit ==
    /\ LET paths == {"service.py", "test_a", "config_a", "settings.py", "test_config"}
           line == [line : {"code", "fix"}, type : {"add", "remove", "context"}]
           diffs == UNION {[1..n -> line] : n \in 0..MaxDiffLines}
           counts == {0, 1, 2, 4, 5, 6, 40}
       IN  intent_args \in [file_path : paths, diff_lines : diffs,
                            stats : [added : counts, removed : counts]]
    /\ intent = "unset"
    /\ mermaid_arg = <<>>
    /\ validation = [is_valid |-> FALSE, errors |-> <<>>, warnings |-> <<>>]
    /\ imports = EmptyDict
    /\ imported_by = EmptyDict
    /\ changes = <<>>
    /\ initialized = FALSE
    /\ impacts = <<>>
    /\ impact_level = "unset"
    /\ QueryIdle
    /\ WatcherIdle
    /\ PipelineIdle

DetectIntent ==
    /\ intent = "unset"
    /\ intent' = detect_intent(intent_args.file_path, intent_args.diff_lines,
                               intent_args.stats)
    /\ UNCHANGED <<intent_args, mermaid_arg, validation, changes, initialized, impacts,
                   impact_level, graphVars, queryVars, watcherVars, pipelineVars>>

SpecIntent == IntentInit /\ [][DetectIntent]_vars

-----------------------------------------------------------------------------
(* One call of DependencyGraph.get_dependents, a statement at a time, on   *)
(* any graph of at most MaxEdges reverse edges.                            *)

\* The graph whose reverse edges are E, a set of <<module, dependent>>.
ImportedByOf(E) ==
    [m \in {e[1] : e \in E} |-> {e[2] : e \in {x \in E : x[1] = m}}]

ImportsOf(E) ==
    [p \in {e[2] : e \in E} |-> {e[1] : e \in {x \in E : x[2] = p}}]

EdgeSets == {E \in SUBSET (Names \X Names) : Cardinality(E) <= MaxEdges}

QueryInit ==
    /\ \E E \in EdgeSets :
          /\ imports = ImportsOf(E)
          /\ imported_by = ImportedByOf(E)
    /\ TrackerIdle
    /\ QueryIdle
    /\ WatcherIdle
    /\ PipelineIdle

\* dependents = set(); to_check = [file_path]
QueryCall(file_path) ==
    /\ q_pc = "idle"
    /\ q_pc' = "loop"
    /\ q_path' = file_path
    /\ dependents' = {}
    /\ to_check' = <<file_path>>
    /\ UNCHANGED <<graphVars, trackerVars, watcherVars, pipelineVars>>

\* while to_check: one pass through the body
QueryLoop ==
    /\ q_pc = "loop"
    /\ to_check # <<>>
    /\ LET st == get_dependents_loop(imported_by,
                    [dependents |-> dependents, to_check |-> to_check])
       IN  /\ dependents' = st.dependents
           /\ to_check' = st.to_check
    /\ UNCHANGED <<q_pc, q_path, graphVars, trackerVars, watcherVars, pipelineVars>>

\* return dependents
QueryReturn ==
    /\ q_pc = "loop"
    /\ to_check = <<>>
    /\ q_pc' = "done"
    /\ UNCHANGED <<q_path, dependents, to_check, graphVars, trackerVars, watcherVars, pipelineVars>>

QueryNext ==
    \/ \E p \in Names : QueryCall(p)
    \/ QueryLoop
    \/ QueryReturn

\* A call that has started keeps executing.
SpecQuery ==
    QueryInit /\ [][QueryNext]_vars /\ WF_vars(QueryLoop) /\ WF_vars(QueryReturn)

-----------------------------------------------------------------------------
(* DebouncedHandler.  Three kinds of thread run its code: the observer     *)
(* thread, which dispatches the raw events one after the other to          *)
(* on_created / on_modified / on_deleted; one thread per threading.Timer,  *)
(* which sleeps for debounce_seconds and then calls _fire_callback; and,   *)
(* inside _fire_callback, the same timer thread runs self.callback.  Each  *)
(* "with self._lock" block is one step.                                    *)

\* debounce_seconds
Debounce == 2

IGNORE_PATTERNS ==
    {"__pycache__", ".git", ".venv", "venv", ".env", "node_modules",
     ".pytest_cache", ".ruff_cache", "__pypackages__"}

WATCH_EXTENSIONS == {".py", ".js", ".jsx", ".ts", ".tsx"}

AcceptedPaths == { PathOf(<<"src", "p.py">>, ".py"), PathOf(<<"src", "q.ts">>, ".ts") }

IgnoredPaths ==
    { PathOf(<<"src", "notes.md">>, ".md"), PathOf(<<".git", "hook.py">>, ".py") }

RawPaths == AcceptedPaths \cup IgnoredPaths \cup {PathOf(<<"src", "pkg.py">>, ".py")}

EventTypes == {"created", "modified", "deleted"}

\* _should_ignore answering no for every path.
should_ignore_never(path) == FALSE

\* DebouncedHandler._should_ignore
should_ignore(path) ==
    \/ path.suffix \notin WATCH_EXTENSIONS
    \/ \E pattern \in IGNORE_PATTERNS :
          \E k \in 1..Len(path.parts) : path.parts[k] = pattern

\* self._pending_events[src_path] = change_event, on an insertion-ordered
\* dict held as the list of its items: a key that is present keeps its place.
dict_set(items, key, value) ==
    IF \E k \in 1..Len(items) : items[k].path = key
    THEN [k \in 1..Len(items) |-> IF items[k].path = key THEN value ELSE items[k]]
    ELSE Append(items, value)

\* threading.Timer.cancel: it stops a timer that is still in its wait; a timer
\* that has left the wait runs its function all the same.
timer_cancel(tm) ==
    [tm EXCEPT !.finished = TRUE,
               !.state = IF tm.state = "waiting" THEN "cancelled" ELSE tm.state]

\* threading.Timer(self.debounce_seconds, self._fire_callback).start()
new_timer(at) ==
    [state |-> "waiting", deadline |-> at + Debounce, finished |-> FALSE, events |-> <<>>,
     raised |-> 0]

\* _fire_callback with no "except Exception" around self.callback(event): the
\* exception ends the timer thread with the rest of its events undelivered.
after_callback_uncaught(tm, ok) ==
    [tm EXCEPT !.state = IF tm.events = <<>> \/ ~ok THEN "done" ELSE "firing",
               !.raised = IF ok THEN tm.raised ELSE tm.raised + 1]

\* _fire_callback, the end of one turn of its for loop: self.callback(event)
\* has returned, or has raised an Exception that the except clause prints; in
\* both cases the loop goes on to the next event, and the thread ends after
\* the last one.  raised counts the turns that ended in the except clause.
after_callback(tm, ok) ==
    [tm EXCEPT !.state = IF tm.events = <<>> THEN "done" ELSE "firing",
               !.raised = IF ok THEN tm.raised ELSE tm.raised + 1]

\* The watcher after one start(): the observer runs, the handler is new.
Started ==
    /\ observer = "alive"
    /\ has_handler = TRUE
    /\ gen_start = 0
    /\ old_pending = <<>>
    /\ api_pc = "idle"
    /\ api_result = "started"
    /\ stop_mark = 0
    /\ calls = 1

NoRaw == [count |-> 0, event_type |-> "none", at |-> 0, rapid |-> TRUE]

WatcherInit ==
    /\ imports = EmptyDict
    /\ imported_by = EmptyDict
    /\ TrackerIdle
    /\ QueryIdle
    /\ now = 0
    /\ pending_events = <<>>
    /\ timer = 0
    /\ timers = <<>>
    /\ obs_pc = "idle"
    /\ src_path = NoPath
    /\ running = {}
    /\ fs_exists \in SUBSET AcceptedPaths
    /\ raw_stat = [p \in AcceptedPaths |-> NoRaw]
    /\ raw_seen = 0
    /\ emitted = <<>>
    /\ Started
    /\ PipelineIdle

\* The raw events the file system can raise for a path: a file that exists
\* is modified or deleted, one that does not is created; the directory of
\* the model, which has the name of a Python file, raises directory events.
Raises(is_directory, event_type, path) ==
    IF is_directory THEN path = PathOf(<<"src", "pkg.py">>, ".py")
    ELSE \/ path \in IgnoredPaths
         \/ path \in fs_exists /\ event_type \in {"modified", "deleted"}
         \/ path \in AcceptedPaths \ fs_exists /\ event_type = "created"

\* A second passes.
Tick ==
    /\ now < MaxTime
    /\ now' = now + 1
    /\ UNCHANGED <<pending_events, timer, timers, obs_pc, src_path, running, fs_exists, raw_stat, raw_seen,
                   emitted>>
    /\ UNCHANGED <<graphVars, trackerVars, queryVars, pipelineVars, lifecycleVars>>

\* on_created, on_modified or on_deleted, and _handle_event up to the end of
\* its "with self._lock" block: a directory event is not handled, an ignored
\* path returns at once, any other replaces the pending event of its path.
HandleEvent(is_directory, event_type, path) ==
    /\ observer = "alive"
    /\ obs_pc = "idle"
    /\ raw_seen < MaxRaw
    /\ Raises(is_directory, event_type, path)
    /\ raw_seen' = raw_seen + 1
    /\ IF is_directory \/ should_ignore(path)
       THEN UNCHANGED <<pending_events, obs_pc, src_path, fs_exists, raw_stat>>
       ELSE LET ev == [path |-> path, event_type |-> event_type, at |-> now]
                old == raw_stat[path]
            IN  /\ pending_events' = dict_set(pending_events, path, ev)
                /\ obs_pc' = "schedule"
                /\ src_path' = path
                /\ fs_exists' = IF event_type = "deleted" THEN fs_exists \ {path}
                                ELSE fs_exists \cup {path}
                /\ raw_stat' =
                      [raw_stat EXCEPT ![path] =
                          [count |-> old.count + 1,
                           event_type |-> event_type,
                           at |-> now,
                           rapid |-> old.rapid /\ (old.count = 0 \/ now - old.at < Debounce)]]
    /\ UNCHANGED <<now, timer, timers, running, emitted>>
    /\ UNCHANGED <<graphVars, trackerVars, queryVars, pipelineVars, lifecycleVars>>

\* _schedule_callback: cancel the current timer, start a new one.
ScheduleCallback ==
    /\ obs_pc = "schedule"
    /\ LET cancelled ==
               IF timer # 0
               THEN [timers EXCEPT ![timer] = timer_cancel(timers[timer])]
               ELSE timers
       IN  /\ timers' = Append(cancelled, new_timer(now))
           /\ timer' = Len(timers) + 1
    /\ obs_pc' = "idle"
    /\ src_path' = NoPath
    /\ UNCHANGED <<now, pending_events, running, fs_exists, raw_stat, raw_seen, emitted>>
    /\ UNCHANGED <<graphVars, trackerVars, queryVars, pipelineVars, lifecycleVars>>

\* Timer.run: the wait has timed out and finished is not set; the thread goes
\* on to call _fire_callback.
TimerExpire(t) ==
    /\ timers[t].state = "waiting"
    /\ now >= timers[t].deadline
    /\ timers' = [timers EXCEPT ![t].state = "expired"]
    /\ UNCHANGED <<now, pending_events, timer, obs_pc, src_path, running, fs_exists, raw_stat, raw_seen,
                   emitted>>
    /\ UNCHANGED <<graphVars, trackerVars, queryVars, pipelineVars, lifecycleVars>>

\* _fire_callback, its "with self._lock" block: take the pending events of the
\* timer's own handler.  With none taken, the for loop is empty and the thread
\* ends.
FireCallback(t) ==
    /\ timers[t].state = "expired"
    /\ LET mine == IF t > gen_start THEN pending_events ELSE old_pending
       IN  timers' = [timers EXCEPT
                        ![t].state = IF mine = <<>> THEN "done" ELSE "firing",
                        ![t].events = mine]
    /\ IF t > gen_start
       THEN pending_events' = <<>> /\ timer' = 0 /\ UNCHANGED old_pending
       ELSE old_pending' = <<>> /\ UNCHANGED <<pending_events, timer>>
    /\ UNCHANGED <<now, obs_pc, src_path, running, fs_exists, raw_stat, raw_seen, emitted>>
    /\ UNCHANGED <<observer, has_handler, gen_start, api_pc, api_result, stop_mark, calls>>
    /\ UNCHANGED <<graphVars, trackerVars, queryVars, pipelineVars>>

\* _fire_callback, its for loop: self.callback(event) is entered ...
CallbackBegin(t) ==
    /\ timers[t].state = "firing"
    /\ t \notin running
    /\ timers[t].events # <<>>
    /\ LET ev == Head(timers[t].events)
       IN  emitted' = Append(emitted, [path |-> ev.path, event_type |-> ev.event_type,
                                       timer |-> t])
    /\ timers' = [timers EXCEPT ![t].events = Tail(timers[t].events)]
    /\ running' = running \cup {t}
    /\ UNCHANGED <<now, pending_events, timer, obs_pc, src_path, fs_exists, raw_stat,
                   raw_seen>>
    /\ UNCHANGED <<graphVars, trackerVars, queryVars, pipelineVars, lifecycleVars>>

\* ... and returns (ok) or raises; after the last event the thread ends.
CallbackEnd(t, ok) ==
    /\ t \in running
    /\ running' = running \ {t}
    /\ timers' = [timers EXCEPT ![t] = after_callback(timers[t], ok)]
    /\ UNCHANGED <<now, pending_events, timer, obs_pc, src_path, fs_exists, raw_stat, raw_seen, emitted>>
    /\ UNCHANGED <<graphVars, trackerVars, queryVars, pipelineVars, lifecycleVars>>

WatcherNext ==
    \/ Tick
    \/ \E is_directory \in BOOLEAN, ty \in EventTypes, path \in RawPaths :
            HandleEvent(is_directory, ty, path)
    \/ ScheduleCallback
    \/ \E t \in DOMAIN timers : TimerExpire(t)
    \/ \E t \in DOMAIN timers : FireCallback(t)
    \/ \E t \in DOMAIN timers : CallbackBegin(t)
    \/ \E t \in DOMAIN timers, ok \in BOOLEAN : CallbackEnd(t, ok)

SpecWatcher == WatcherInit /\ [][WatcherNext]_vars

(***************************************************************************)
(* UmbraWatcher: start() and stop(), called from one thread while the      *)
(* observer thread and the timer threads of its handler run.               *)
(***************************************************************************)

\* start() with no check of self._observer
never_running(obs) == FALSE

\* start(): "if self._observer is not None"
already_running(obs) == obs # "none"

\* is_running() looking at the handler in place of the observer.
is_running_handler == has_handler

\* is_running(): the observer is set and its thread is alive
is_running == observer = "alive"

\* The one path watched in the behaviours of start() and stop().
LifecyclePaths == {PathOf(<<"src", "p.py">>, ".py")}

LifecycleInit ==
    /\ imports = EmptyDict
    /\ imported_by = EmptyDict
    /\ TrackerIdle
    /\ QueryIdle
    /\ now = 0
    /\ pending_events = <<>>
    /\ timer = 0
    /\ timers = <<>>
    /\ obs_pc = "idle"
    /\ src_path = NoPath
    /\ running = {}
    /\ fs_exists \in SUBSET LifecyclePaths
    /\ raw_stat = [p \in AcceptedPaths |-> NoRaw]
    /\ raw_seen = 0
    /\ emitted = <<>>
    /\ observer = "none"
    /\ has_handler = FALSE
    /\ gen_start = 0
    /\ old_pending = <<>>
    /\ api_pc = "idle"
    /\ api_result = "none"
    /\ stop_mark = 0
    /\ calls = 0
    /\ PipelineIdle

\* start(): RuntimeError when the watcher runs; otherwise a new handler (with
\* its own empty _pending_events and no timer) and a new observer.  The timers
\* of the handler it replaces keep that handler's dict.
Start ==
    /\ api_pc = "idle"
    /\ calls < MaxCalls
    /\ calls' = calls + 1
    /\ IF already_running(observer)
       THEN /\ api_result' = "RuntimeError"
            /\ UNCHANGED <<observer, has_handler, gen_start, old_pending, pending_events,
                           timer>>
       ELSE /\ api_result' = "started"
            /\ has_handler' = TRUE
            /\ observer' = "alive"
            /\ gen_start' = Len(timers)
            /\ old_pending' = pending_events
            /\ pending_events' = <<>>
            /\ timer' = 0
    /\ UNCHANGED <<now, timers, obs_pc, src_path, running, fs_exists, raw_stat, raw_seen, emitted, api_pc,
                   stop_mark>>
    /\ UNCHANGED <<graphVars, trackerVars, queryVars, pipelineVars>>

\* stop(), its first if: the observer is stopped and joined (the join waits
\* for the dispatch in progress), then forgotten.
StopObserver ==
    /\ api_pc = "idle"
    /\ calls < MaxCalls
    /\ calls' = calls + 1
    /\ obs_pc = "idle"
    /\ observer' = "none"
    /\ api_pc' = "stop_cancel"
    /\ UNCHANGED <<now, pending_events, timer, timers, obs_pc, src_path, running, fs_exists, raw_stat, raw_seen,
                   emitted, has_handler, gen_start, old_pending, api_result, stop_mark>>
    /\ UNCHANGED <<graphVars, trackerVars, queryVars, pipelineVars>>

\* stop(), its second if: the handler's current timer is cancelled; stop()
\* returns.
StopCancel ==
    /\ api_pc = "stop_cancel"
    /\ timers' = IF has_handler /\ timer # 0
                 THEN [timers EXCEPT ![timer] = timer_cancel(timers[timer])]
                 ELSE timers
    /\ api_pc' = "idle"
    /\ api_result' = "stopped"
    /\ stop_mark' = Len(emitted)
    /\ UNCHANGED <<now, pending_events, timer, obs_pc, src_path, running, fs_exists, raw_stat, raw_seen, emitted,
                   observer, has_handler, gen_start, old_pending, calls>>
    /\ UNCHANGED <<graphVars, trackerVars, queryVars, pipelineVars>>

LifecycleNext ==
    \/ Start
    \/ StopObserver
    \/ StopCancel
    \/ Tick
    \/ \E ty \in EventTypes, path \in LifecyclePaths : HandleEvent(FALSE, ty, path)
    \/ ScheduleCallback
    \/ \E t \in DOMAIN timers : TimerExpire(t)
    \/ \E t \in DOMAIN timers : FireCallback(t)
    \/ \E t \in DOMAIN timers : CallbackBegin(t)
    \/ \E t \in DOMAIN timers, ok \in BOOLEAN : CallbackEnd(t, ok)

SpecLifecycle == LifecycleInit /\ [][LifecycleNext]_vars

-----------------------------------------------------------------------------
(* Diagram texts (state.py, validators/mermaid.py, surgeon.py).            *)
(*                                                                         *)
(* A str is the list of its lines (what split("\n") returns, so the empty  *)
(* string is one empty line); a line is the list of its tokens, " " being  *)
(* a run of white space.  An Optional[str] is a record, None having no     *)
(* lines.                                                                  *)

\* Python truthiness of an Optional[str]: neither None nor "".
TruthyText(t) == t.kind = "text" /\ t.lines # << <<>> >>

\* str.isspace() answering no for every character.
IsSpaceNever(tok) == FALSE

IsSpace(tok) == tok = " "

\* str.lower(), on the tokens that have an upper-case spelling here
Lower(tok) ==
    CASE tok = "<SCRIPT" -> "<script"
      [] tok = "OnClick" -> "onclick"
      [] OTHER -> tok

RECURSIVE LStrip(_)
LStrip(s) == IF s # <<>> /\ IsSpace(Head(s)) THEN LStrip(Tail(s)) ELSE s

RECURSIVE RStrip(_)
RStrip(s) ==
    IF s # <<>> /\ IsSpace(s[Len(s)]) THEN RStrip(SubSeq(s, 1, Len(s) - 1)) ELSE s

\* line.strip()
StripLine(line) == RStrip(LStrip(line))

IsBlank(line) == StripLine(line) = <<>>

RECURSIVE DropBlankHead(_)
DropBlankHead(lines) ==
    IF lines # <<>> /\ IsBlank(Head(lines)) THEN DropBlankHead(Tail(lines)) ELSE lines

RECURSIVE DropBlankTail(_)
DropBlankTail(lines) ==
    IF lines # <<>> /\ IsBlank(lines[Len(lines)])
    THEN DropBlankTail(SubSeq(lines, 1, Len(lines) - 1))
    ELSE lines

\* text.strip(), on the lines of a text: blank lines at both ends go, the
\* first line left loses its leading and the last its trailing white space.
StripLines(lines) ==
    LET kept == DropBlankTail(DropBlankHead(lines))
    IN  IF kept = <<>> THEN << <<>> >>
        ELSE [k \in 1..Len(kept) |->
                 LET a == IF k = 1 THEN LStrip(kept[k]) ELSE kept[k]
                 IN  IF k = Len(kept) THEN RStrip(a) ELSE a]

\* the number of occurrences of a token in a line and in a text
RECURSIVE CountInLine(_, _)
CountInLine(line, tok) ==
    IF line = <<>> THEN 0
    ELSE (IF Head(line) = tok THEN 1 ELSE 0) + CountInLine(Tail(line), tok)

RECURSIVE CountInLines(_, _)
CountInLines(lines, tok) ==
    IF lines = <<>> THEN 0
    ELSE CountInLine(Head(lines), tok) + CountInLines(Tail(lines), tok)

Directives == {"graph", "flowchart"}
Orientations == {"TD", "TB", "LR", "RL", "BT"}

\* re.match(r"^(graph|flowchart)\s+(TD|TB|LR|RL|BT)", first_line)
MatchesDirective(line) ==
    /\ Len(line) >= 3
    /\ line[1] \in Directives
    /\ IsSpace(line[2])
    /\ line[3] \in Orientations

\* line.strip().startswith("subgraph")
StartsSubgraph(line) == StripLine(line) # <<>> /\ Head(StripLine(line)) = "subgraph"

\* re.match(r"^\s*end\s*$", line)
IsEndLine(line) == StripLine(line) = <<"end">>

\* dangerous_patterns without its first entry.
dangerous_patterns_no_script == <<"javascript:", "onclick", "onerror">>

dangerous_patterns == <<"<script", "javascript:", "onclick", "onerror">>

\* pattern.lower() in mermaid.lower()
ContainsPattern(lines, pattern) ==
    \E i \in 1..Len(lines) : \E k \in 1..Len(lines[i]) : Lower(lines[i][k]) = pattern

Words == {"App", "Application", "Db", "Store", "Core", "A", "B"}

\* re.search(r"\w+->\w+", mermaid)
HasShortArrow(lines) ==
    \E i \in 1..Len(lines) : \E k \in 1..Len(lines[i]) :
        /\ lines[i][k] = "->"
        /\ k > 1 /\ lines[i][k - 1] \in Words
        /\ k < Len(lines[i]) /\ lines[i][k + 1] \in Words

\* The "subgraph\s+.*?\n\s*end" matches of rule 6, from line i on: a match
\* opens on a line with "subgraph" and white space after it and closes on the
\* first later line that begins with "end"; the search resumes after it.
OpensSubgraph(line) ==
    \E k \in 1..Len(line) :
        line[k] = "subgraph" /\ (k = Len(line) \/ IsSpace(line[k + 1]))

\* With "subgraph" ending its line, \s+ takes the line break and the closing
\* "\nend" needs a second one.
FirstCloseAfter(line) ==
    IF \E k \in 1..Len(line) : line[k] = "subgraph" /\ k < Len(line) /\ IsSpace(line[k + 1])
    THEN 1 ELSE 2

BeginsWithEnd(line) == LStrip(line) # <<>> /\ Head(LStrip(line)) = "end"

RECURSIVE EmptySubgraphs(_, _)
EmptySubgraphs(lines, i) ==
    LET opens == {a \in i..Len(lines) : OpensSubgraph(lines[a])}
    IN  IF opens = {} THEN 0
        ELSE LET a == CHOOSE x \in opens : \A y \in opens : x <= y
                 closes == {b \in (a + FirstCloseAfter(lines[a]))..Len(lines) :
                               BeginsWithEnd(lines[b])}
             IN  IF closes = {} THEN EmptySubgraphs(lines, a + 1)
                 ELSE LET b == CHOOSE x \in closes : \A y \in closes : x <= y
                          inner == {c \in (a + 1)..(b - 1) : ~IsBlank(lines[c])}
                      IN  (IF inner = {} THEN 1 ELSE 0) + EmptySubgraphs(lines, b + 1)

\* A ValidationResult of a validation that returns at its first error.
ValidationResultFirstError(is_valid, errors, warnings) ==
    [is_valid |-> is_valid,
     errors |-> IF errors = <<>> THEN <<>> ELSE <<Head(errors)>>,
     warnings |-> warnings]

\* A ValidationResult that a warning makes invalid.
ValidationResultStrict(is_valid, errors, warnings) ==
    [is_valid |-> is_valid /\ warnings = <<>>, errors |-> errors, warnings |-> warnings]

ValidationResult(is_valid, errors, warnings) ==
    [is_valid |-> is_valid, errors |-> errors, warnings |-> warnings]

\* validate_mermaid(mermaid), for a str.  An error message is held as the
\* tuple of its fixed text and the values formatted into it.
validate_mermaid(mermaid) ==
    IF ~TruthyText(mermaid) \/ StripLines(mermaid.lines) = << <<>> >>
    THEN ValidationResult(FALSE, << <<"Empty diagram">> >>, <<>>)
    ELSE
    LET lines == StripLines(mermaid.lines)
        first_line == StripLine(lines[1])
        rule1 == IF MatchesDirective(first_line) THEN <<>> ELSE << <<"directive">> >>
        subgraph_count == Cardinality({i \in 1..Len(lines) : StartsSubgraph(lines[i])})
        end_count == Cardinality({i \in 1..Len(lines) : IsEndLine(lines[i])})
        rule2 == IF subgraph_count # end_count
                 THEN << <<"Unbalanced subgraphs", subgraph_count, end_count>> >>
                 ELSE <<>>
        found == SelectSeq(dangerous_patterns,
                           LAMBDA pattern : ContainsPattern(mermaid.lines, pattern))
        rule3 == [k \in 1..Len(found) |-> <<"dangerous", found[k]>>]
        rule4a == IF CountInLines(mermaid.lines, "[") # CountInLines(mermaid.lines, "]")
                  THEN << <<"Unbalanced square brackets",
                            CountInLines(mermaid.lines, "["),
                            CountInLines(mermaid.lines, "]")>> >>
                  ELSE <<>>
        rule4b == IF CountInLines(mermaid.lines, "(") # CountInLines(mermaid.lines, ")")
                  THEN << <<"Unbalanced parentheses",
                            CountInLines(mermaid.lines, "("),
                            CountInLines(mermaid.lines, ")")>> >>
                  ELSE <<>>
        errors == rule1 \o rule2 \o rule3 \o rule4a \o rule4b
        rule5 == IF HasShortArrow(mermaid.lines) THEN <<"short arrow">> ELSE <<>>
        rule6 == [k \in 1..EmptySubgraphs(mermaid.lines, 1) |-> "empty subgraph"]
    IN  ValidationResult(errors = <<>>, errors, rule5 \o rule6)

-----------------------------------------------------------------------------
(* One call of validate_mermaid, on any text of at most MaxLines lines     *)
(* taken from a pool of lines.                                             *)

ValidateInit ==
    /\ LET pool == { <<"graph", " ", "TD">>,
                     <<" ", "flowchart", " ", "LR", " ">>,
                     <<"graph">>,
                     <<" ", "subgraph", " ", "Core">>,
                     <<" ", "end", " ">>,
                     <<"A", "[", "App", "]", " ", "-->", " ", "B", "(", "Db", ")">>,
                     <<"A", "[", "App">>,
                     <<"B", "(", "Db">>,
                     <<"<SCRIPT", "A">>,
                     <<"A", "OnClick">>,
                     <<"A", "->", "B">>,
                     <<" ">>,
                     <<>> }
       IN  mermaid_arg \in {Text(lines) : lines \in UNION {[1..n -> pool] : n \in 1..MaxLines}}
    /\ validation = [is_valid |-> FALSE, errors |-> <<>>, warnings |-> <<>>]
    /\ intent_args = <<>>
    /\ intent = "unset"
    /\ imports = EmptyDict
    /\ imported_by = EmptyDict
    /\ changes = <<>>
    /\ initialized = FALSE
    /\ impacts = <<>>
    /\ impact_level = "unset"
    /\ QueryIdle
    /\ WatcherIdle
    /\ PipelineIdle

Validate ==
    /\ validation = [is_valid |-> FALSE, errors |-> <<>>, warnings |-> <<>>]
    /\ validation' = validate_mermaid(mermaid_arg)
    /\ UNCHANGED <<mermaid_arg, intent_args, intent, changes, initialized, impacts,
                   impact_level, graphVars, queryVars, watcherVars, pipelineVars>>

SpecValidate == ValidateInit /\ [][Validate]_vars

\* clean_mermaid_output(raw); the token "<fence>" is a markdown code fence
\* (three backquotes)
IsFenceOrComment(line) ==
    /\ StripLine(line) # <<>>
    /\ Head(StripLine(line)) \in {"<fence>", "<fence>mermaid", "%", "%%"}

\* result.startswith(("graph ", "flowchart "))
StartsWithGraph(line) == Len(line) >= 2 /\ line[1] \in Directives /\ IsSpace(line[2])

clean_mermaid_output(raw) ==
    LET lines == StripLines(raw.lines)
        cleaned_lines == SelectSeq(lines, LAMBDA line : ~IsFenceOrComment(line))
        result == IF cleaned_lines = <<>> THEN << <<>> >> ELSE StripLines(cleaned_lines)
        starts == {i \in 1..Len(result) : StartsWithGraph(StripLine(result[i]))}
    IN  IF StartsWithGraph(result[1]) \/ starts = {}
        THEN Text(result)
        ELSE LET i == CHOOSE x \in starts : \A y \in starts : x <= y
             IN  Text(SubSeq(result, i, Len(result)))

\* What the generator's model may answer (response.content).
SurgeonResponses ==
    { \* a diagram, as asked
      Text(<< <<"graph", " ", "TD">>, <<" ", "App", "[", "Application", "]">>,
              <<" ", "App", " ", "-->", " ", "Db", "[", "(", "Store", ")", "]">> >>),
      \* a diagram inside a markdown fence, after a sentence
      Text(<< <<"Here is the diagram:">>, <<"<fence>mermaid">>, <<"flowchart", " ", "LR">>,
              <<" ", "subgraph", " ", "Core">>, <<" ", "App", "[", "Application", "]">>,
              <<" ", "end">>, <<"<fence>">>, <<>> >>),
      \* a diagram whose subgraph is labelled with the name of the first file
      Text(<< <<"graph", " ", "TD">>, <<" ", "subgraph", " ", "Core", "[", NameList[1], "]">>,
              <<" ", "App", "[", "Application", "]">>, <<" ", "end">> >>),
      \* a diagram with a bracket left open
      Text(<< <<"graph", " ", "TD">>, <<" ", "App", "[", "Application">> >>),
      \* no diagram at all
      Text(<< <<"I cannot update the diagram.">> >>),
      \* an empty answer
      EmptyText }

\* A call of the model that fails: building the client, or llm.invoke.
Failure(kind) == [kind |-> kind, lines |-> <<>>]

\* What one pass through surgeon_node may meet.
SurgeonOutcomes == {Failure("ctor_error"), Failure("invoke_error")} \cup SurgeonResponses

(***************************************************************************)
(* The pipeline (orchestrator.py, analyst.py, surgeon.py,                  *)
(* validators/mermaid.py) and its two callers (main.py).                   *)
(***************************************************************************)

MAX_RETRIES == 3

AnalysisResult(is_structural_change, change_type) ==
    [kind |-> "analysis", is_structural_change |-> is_structural_change,
     change_type |-> change_type]

\* What the classifier's model call may do.
AnalystOutcomes == {"ctor_error", "invoke_error", "unparsable", "structural", "cosmetic"}

\* analyst_node, once the client is built
analyst_node(st, out) ==
    IF out = "structural"
    THEN [st EXCEPT !.analysis_result = AnalysisResult(TRUE, "new_service")]
    ELSE \* a cosmetic verdict, or the except branch
         [st EXCEPT !.analysis_result = AnalysisResult(FALSE, "cosmetic")]

should_update(st) ==
    IF st.analysis_result.kind = "analysis" /\ st.analysis_result.is_structural_change
    THEN "update" ELSE "skip"

\* surgeon_node, the values of the state its prompt is built from: the
\* current diagram and the analysis (the file path and the file text, which
\* no node changes, are left out).
surgeon_prompt(st) == <<st.current_mermaid, st.analysis_result>>

\* surgeon_node, once the client is built: out is "invoke_error" or the
\* model's answer
surgeon_node(st, out) ==
    IF out.kind = "invoke_error"
    THEN [st EXCEPT !.updated_mermaid = NoneText]
    ELSE [st EXCEPT !.updated_mermaid = clean_mermaid_output(out)]

validator_node(st) ==
    LET updated == st.updated_mermaid
    IN  IF ~TruthyText(updated)
        THEN [st EXCEPT !.is_valid_mermaid = FALSE,
                        !.validation_error = ErrorMsg(<< <<"No diagram to validate">> >>)]
        ELSE LET result == validate_mermaid(updated)
             IN  IF ~result.is_valid
                 THEN [st EXCEPT !.is_valid_mermaid = FALSE,
                                 !.validation_error = ErrorMsg(result.errors)]
                 ELSE [st EXCEPT !.is_valid_mermaid = TRUE,
                                 !.validation_error = NoError]

\* check_validity with the bound compared by > in place of >=
check_validity_strict(st) ==
    IF st.is_valid_mermaid THEN "valid"
    ELSE IF st.retry_count > MAX_RETRIES THEN "abort"
    ELSE "retry"

check_validity(st) ==
    IF st.is_valid_mermaid THEN "valid"
    ELSE IF st.retry_count >= MAX_RETRIES THEN "abort"
    ELSE "retry"

increment_retry(st) == [st EXCEPT !.retry_count = st.retry_count + 1]

\* DiagramStore.load (umbra.agents.writer.load_current_mermaid): the stored
\* diagram text.
load_current_mermaid(stored) == stored

PipelineInit ==
    /\ imports = EmptyDict
    /\ imported_by = EmptyDict
    /\ TrackerIdle
    /\ QueryIdle
    /\ WatcherIdle
    /\ PipelineIdle

\* graph.invoke({... "current_mermaid": current_mermaid, "retry_count": 0})
Invoke(current_mermaid) ==
    /\ runs < MaxRuns
    /\ runs' = runs + 1
    /\ graph_state' = InitialState(current_mermaid)
    /\ p_pc' = "analyst"
    /\ outcome' = "none"
    /\ before' = persisted
    /\ surgeon_calls' = 0
    /\ prompt' = <<>>

\* process_change, a created or modified event, up to graph.invoke
WatchInvoke ==
    /\ caller = "idle"
    /\ p_pc = "idle"
    /\ Invoke(load_current_mermaid(persisted))
    /\ caller' = "watch"
    /\ UNCHANGED <<persisted, scan_mermaid, scan_left>>
    /\ UNCHANGED <<graphVars, trackerVars, queryVars, watcherVars>>

\* process_change after graph.invoke.  When it has returned, the change is
\* handed to change_tracker.track_change; when it has raised, control is in
\* the except branch, which prints the error and returns.  The event is one
\* for the first file, with a diff of two added lines.
WatchReturn(event_type, llm) ==
    /\ caller = "watch"
    /\ p_pc \in {"end", "raised"}
    /\ caller' = "idle"
    /\ p_pc' = "idle"
    /\ IF p_pc = "end"
       THEN LET r == track_change(Graph, NameList[1], event_type,
                                  Source({}, {}, TRUE, FALSE), SomeDiff, llm)
            IN  /\ imports' = r.graph.imports
                /\ imported_by' = r.graph.imported_by
                /\ changes' = Append(changes, r.change)
       ELSE UNCHANGED <<graphVars, changes>>
    /\ UNCHANGED <<graph_state, outcome, persisted, before, surgeon_calls, prompt, scan_mermaid,
                   scan_left, runs>>
    /\ UNCHANGED <<initialized, impacts, impact_level, callVars, queryVars, watcherVars>>

\* remove_file_from_diagram: the stored diagram without the lines that hold
\* the file name, in any letter case; the result is written as it is.
remove_file_from_diagram(stored, file_name) ==
    Text(SelectSeq(stored.lines,
                   LAMBDA line : ~\E k \in 1..Len(line) : Lower(line[k]) = Lower(file_name)))

\* process_change, a deleted event: the deletion is handed to
\* change_tracker.track_change, then the file's lines are taken out of the
\* stored diagram.  No graph.invoke is made.
WatchDelete(file_name) ==
    /\ caller = "idle"
    /\ p_pc = "idle"
    /\ Cardinality({k \in DOMAIN changes : changes[k].change_type = "deleted"}) < MaxDeletes
    /\ LET r == track_change(Graph, file_name, "deleted", NoneSource, NoDiff, "unavailable")
       IN  /\ imports' = r.graph.imports
           /\ imported_by' = r.graph.imported_by
           /\ changes' = Append(changes, r.change)
    /\ persisted' = remove_file_from_diagram(persisted, file_name)
    /\ UNCHANGED <<p_pc, caller, graph_state, outcome, before, surgeon_calls, prompt,
                   scan_mermaid, scan_left, runs>>
    /\ UNCHANGED <<initialized, impacts, impact_level, callVars, queryVars, watcherVars>>

\* watch with --no-scan: prefill_cache reads the n code files of the project
\* (each importing the next one) and hands them to change_tracker.initialize.
\* The other branch of watch, do_initial_scan, does not call initialize.
PrefillCache(n) ==
    /\ caller = "start"
    /\ p_pc = "idle"
    /\ LET files == [f \in {NameList[i] : i \in 1..n} |->
                        Source({NextName(f)}, {}, TRUE, FALSE)]
       IN  /\ imports' = add_files(Graph, files, DOMAIN files).imports
           /\ imported_by' = add_files(Graph, files, DOMAIN files).imported_by
    /\ initialized' = TRUE
    /\ caller' = "idle"
    /\ UNCHANGED <<p_pc, graph_state, outcome, persisted, before, surgeon_calls, prompt,
                   scan_mermaid, scan_left, runs>>
    /\ UNCHANGED <<changes, impacts, impact_level, callVars, queryVars, watcherVars>>

\* do_initial_scan, up to its loop over the n code files found
ScanStart(n) ==
    /\ caller = "start"
    /\ p_pc = "idle"
    /\ runs = 0
    /\ changes = <<>>
    /\ caller' = "scan_loop"
    /\ scan_mermaid' = INITIAL_DIAGRAM
    /\ scan_left' = n
    /\ UNCHANGED <<p_pc, graph_state, outcome, persisted, before, surgeon_calls, prompt, runs>>
    /\ UNCHANGED <<graphVars, trackerVars, queryVars, watcherVars>>

\* do_initial_scan, the loop body up to graph.invoke
ScanInvoke ==
    /\ caller = "scan_loop"
    /\ scan_left > 0
    /\ Invoke(scan_mermaid)
    /\ caller' = "scan"
    /\ UNCHANGED <<persisted, scan_mermaid, scan_left>>
    /\ UNCHANGED <<graphVars, trackerVars, queryVars, watcherVars>>

\* do_initial_scan, the loop body after graph.invoke: a truthy
\* result["updated_mermaid"] becomes the current diagram; a raise is caught
ScanAdopt ==
    /\ caller = "scan"
    /\ p_pc \in {"end", "raised"}
    /\ scan_mermaid' =
          IF p_pc = "end" /\ TruthyText(graph_state.updated_mermaid)
          THEN graph_state.updated_mermaid
          ELSE scan_mermaid
    /\ scan_left' = scan_left - 1
    /\ caller' = "scan_loop"
    /\ p_pc' = "idle"
    /\ UNCHANGED <<graph_state, outcome, persisted, before, surgeon_calls, prompt, runs>>
    /\ UNCHANGED <<graphVars, trackerVars, queryVars, watcherVars>>

\* do_initial_scan, after the loop: the current diagram is written out
ScanWrite ==
    /\ caller = "scan_loop"
    /\ scan_left = 0
    /\ persisted' = scan_mermaid
    /\ caller' = "idle"
    /\ scan_left' = 0
    /\ UNCHANGED <<p_pc, graph_state, outcome, before, surgeon_calls, prompt, scan_mermaid, runs>>
    /\ UNCHANGED <<graphVars, trackerVars, queryVars, watcherVars>>

\* The analyst node and the should_update edge.  Building the client is
\* outside the node's try block: when it fails, the node raises.
AnalystNode(out) ==
    /\ p_pc = "analyst"
    /\ IF out = "ctor_error"
       THEN /\ p_pc' = "raised"
            /\ outcome' = "Raised"
            /\ UNCHANGED graph_state
       ELSE /\ graph_state' = analyst_node(graph_state, out)
            /\ IF should_update(graph_state') = "update"
               THEN p_pc' = "surgeon" /\ UNCHANGED outcome
               ELSE p_pc' = "end" /\ outcome' = "Skipped"
    /\ UNCHANGED <<caller, persisted, before, surgeon_calls, prompt, scan_mermaid, scan_left, runs>>
    /\ UNCHANGED <<graphVars, trackerVars, queryVars, watcherVars>>

\* The surgeon node.  It returns the state as it is without a structural
\* analysis; building the client is outside its try block too.
SurgeonNode(out) ==
    /\ p_pc = "surgeon"
    /\ IF should_update(graph_state) # "update"
       THEN /\ p_pc' = "validator"
            /\ UNCHANGED <<graph_state, outcome, surgeon_calls, prompt>>
       ELSE IF out.kind = "ctor_error"
       THEN /\ p_pc' = "raised"
            /\ outcome' = "Raised"
            /\ UNCHANGED <<graph_state, surgeon_calls, prompt>>
       ELSE /\ graph_state' = surgeon_node(graph_state, out)
            /\ surgeon_calls' = surgeon_calls + 1
            /\ prompt' = surgeon_prompt(graph_state)
            /\ p_pc' = "validator"
            /\ UNCHANGED outcome
    /\ UNCHANGED <<caller, persisted, before, scan_mermaid, scan_left, runs>>
    /\ UNCHANGED <<graphVars, trackerVars, queryVars, watcherVars>>

\* The validator node and the check_validity edge.
ValidatorNode ==
    /\ p_pc = "validator"
    /\ graph_state' = validator_node(graph_state)
    /\ LET route == check_validity(graph_state')
       IN  CASE route = "valid" -> p_pc' = "writer" /\ UNCHANGED outcome
             [] route = "retry" -> p_pc' = "increment_retry" /\ UNCHANGED outcome
             [] route = "abort" -> p_pc' = "end" /\ outcome' = "Aborted"
    /\ UNCHANGED <<caller, persisted, before, surgeon_calls, prompt, scan_mermaid, scan_left, runs>>
    /\ UNCHANGED <<graphVars, trackerVars, queryVars, watcherVars>>

\* The increment_retry node and its edge back to the surgeon.
IncrementRetry ==
    /\ p_pc = "increment_retry"
    /\ graph_state' = increment_retry(graph_state)
    /\ p_pc' = "surgeon"
    /\ UNCHANGED <<caller, outcome, persisted, before, surgeon_calls, prompt, scan_mermaid,
                   scan_left, runs>>
    /\ UNCHANGED <<graphVars, trackerVars, queryVars, watcherVars>>

\* The writer node (umbra.agents.writer.writer_node, DiagramStore.persist):
\* the candidate replaces the stored diagram.
WriterNode ==
    /\ p_pc = "writer"
    /\ persisted' = graph_state.updated_mermaid
    /\ p_pc' = "end"
    /\ outcome' = "Written"
    /\ UNCHANGED <<caller, graph_state, before, surgeon_calls, prompt, scan_mermaid,
                   scan_left, runs>>
    /\ UNCHANGED <<graphVars, trackerVars, queryVars, watcherVars>>

PipelineNext ==
    \/ WatchInvoke
    \/ \E event_type \in {"created", "modified"}, llm \in {"unavailable", "error", "ok"} :
            WatchReturn(event_type, llm)
    \/ \E file_name \in {NameList[1], NameList[2]} : WatchDelete(file_name)
    \/ \E n \in 1..MaxScanFiles : PrefillCache(n)
    \/ \E n \in 1..MaxScanFiles : ScanStart(n)
    \/ ScanInvoke
    \/ ScanAdopt
    \/ ScanWrite
    \/ \E out \in AnalystOutcomes : AnalystNode(out)
    \/ \E out \in SurgeonOutcomes : SurgeonNode(out)
    \/ ValidatorNode
    \/ IncrementRetry
    \/ WriterNode

SpecPipeline == PipelineInit /\ [][PipelineNext]_vars

-----------------------------------------------------------------------------
(* Claims about the DependencyGraph.                                       *)

\* C1: after any sequence of add_file and remove_file calls the two indices
\* are exact inverses: m is in imports[p] if and only if p is in
\* imported_by[m], for every path p and module m.
C1_IndicesAreInverses ==
    \A p \in Names, m \in Names :
        (p \in DOMAIN imports /\ m \in imports[p])
            <=> (m \in DOMAIN imported_by /\ p \in imported_by[m])

-----------------------------------------------------------------------------
(* Claims about the ChangeTracker.                                         *)

\* The TrackedChange a step of track_change has just returned.
Returned == changes'[Len(changes')]

TrackChangeStep == Len(changes') = Len(changes) + 1

HasBreakingWarning(change) ==
    \E k \in 1..Len(change.warnings) : change.warnings[k][1] = "BREAKING"

\* C2: whenever track_change is called for the deletion of a file that has
\* one dependent or more in the graph of that moment, the TrackedChange it
\* returns has impact level Critical and holds a breaking-change warning.
C2_DeleteWithDependentsIsCritical ==
    [][ ( /\ TrackChangeStep
          /\ Returned.change_type = "deleted"
          /\ get_dependents(imported_by, Returned.file_path) # {} )
        => ( /\ Returned.impact_level = "critical"
             /\ HasBreakingWarning(Returned) ) ]_vars

-----------------------------------------------------------------------------
(* Claims about get_dependents.                                            *)

\* The paths reached from the set S by one reverse edge.
DirectDependents(ib, S) == UNION {Get(ib, x) : x \in S}

\* The paths reached from file_path by following k reverse edges or fewer,
\* and one at least.
RECURSIVE ReachedWithin(_, _, _)
ReachedWithin(ib, file_path, k) ==
    IF k = 1 THEN Get(ib, file_path)
    ELSE LET r == ReachedWithin(ib, file_path, k - 1)
         IN  r \cup DirectDependents(ib, r)

\* Any path reached at all is reached by NumNames edges or fewer.
TransitiveDependents(ib, file_path) == ReachedWithin(ib, file_path, NumNames)

\* C9: get_dependents(path) returns exactly the paths reached from path by
\* following imported_by edges one or more times.
C9_DependentsAreTransitiveClosure ==
    q_pc = "done" => dependents = TransitiveDependents(imported_by, q_path)

\* A call returned more than the direct dependents: the second and later
\* passes of the loop found something.
C9_Witness ==
    /\ q_pc = "done"
    /\ dependents = TransitiveDependents(imported_by, q_path)
    /\ dependents # Get(imported_by, q_path)
    /\ Cardinality(dependents) >= 2

\* The paths not discovered yet, plus those waiting in to_check.
Variant == Cardinality(Names \ dependents) + Len(to_check)

\* C10: get_dependents terminates on every finite graph, cycles included,
\* and returns a finite set: each pass of the loop lowers Variant, a natural
\* number, so a call that has started reaches its return, and what it
\* returns is a set of paths of the graph.
C10_GetDependentsTerminates ==
    /\ [][(q_pc = "loop" /\ q_pc' = "loop") => Variant' < Variant]_vars
    /\ (q_pc = "loop") ~> (q_pc = "done")
    /\ [](dependents \subseteq Names)

\* A call on a path that lies on a cycle has returned (and reports the path
\* itself).
C10_Witness ==
    /\ q_pc = "done"
    /\ q_path \in dependents
    /\ \E m \in Names : m # q_path /\ m \in dependents


(***************************************************************************)
(* The debounced handler.                                                  *)
(***************************************************************************)

\* The calls of self.callback made so far for one path.
EmittedFor(path) == SelectSeq(emitted, LAMBDA e : e.path = path)

\* Every timer thread has ended and no handler is between its two steps.
Quiescent ==
    /\ obs_pc = "idle"
    /\ pending_events = <<>>
    /\ running = {}
    /\ \A t \in DOMAIN timers : timers[t].state \in {"done", "cancelled"}

\* C3: when every accepted raw event of a path arrived less than the debounce
\* interval after the one before it, the callback is invoked for that path
\* no more than once, and once all timers have ended it has been invoked
\* exactly once, with the kind of the last raw event.
C3_RapidBurstEmitsOnce ==
    \A p \in AcceptedPaths :
        (raw_stat[p].count >= 1 /\ raw_stat[p].rapid) =>
            /\ Len(EmittedFor(p)) <= 1
            /\ Quiescent =>
                  /\ Len(EmittedFor(p)) = 1
                  /\ EmittedFor(p)[1].event_type = raw_stat[p].event_type

\* C7: no two invocations of the watcher callback run at the same time.
C7_OneCallbackAtATime == Cardinality(running) <= 1

\* The timers whose thread may still call _fire_callback.
LiveTimers == {t \in DOMAIN timers : timers[t].state \in {"waiting", "expired"}}

\* C8: at most one live timer, at most one pending event per path, and a timer
\* that a later event reset (cancel() was called on it) never emits.
C8_OneTimerOnePendingNoResetEmits ==
    /\ Cardinality(LiveTimers) <= 1
    /\ \A i, j \in DOMAIN pending_events :
           pending_events[i].path = pending_events[j].path => i = j
    /\ \A i \in DOMAIN emitted : ~timers[emitted[i].timer].finished


(***************************************************************************)
(* The pipeline.                                                           *)
(***************************************************************************)

\* C4: for an invocation whose classification is structural and whose
\* validations all fail, the pipeline ends in Aborted after exactly
\* MAX_RETRIES retries: retry_count starts at 0, changes only by the
\* increment_retry node (by one), never exceeds MAX_RETRIES, and the generator
\* has been invoked exactly MAX_RETRIES + 1 times at the abort, never more.
C4_RetryBound ==
    /\ [](graph_state.retry_count \in 0..MAX_RETRIES)
    /\ [](surgeon_calls <= MAX_RETRIES + 1)
    /\ [](p_pc = "analyst" => graph_state.retry_count = 0)
    /\ []((/\ p_pc = "end"
           /\ should_update(graph_state) = "update"
           /\ ~graph_state.is_valid_mermaid) => outcome = "Aborted")
    /\ [](outcome = "Aborted" =>
             /\ graph_state.retry_count = MAX_RETRIES
             /\ surgeon_calls = MAX_RETRIES + 1)
    /\ [][graph_state'.retry_count # graph_state.retry_count =>
             \/ /\ p_pc = "increment_retry"
                /\ graph_state'.retry_count = graph_state.retry_count + 1
             \/ /\ p_pc' = "analyst"
                /\ graph_state'.retry_count = 0]_vars

C4_Witness ==
    /\ p_pc = "end"
    /\ outcome = "Aborted"
    /\ graph_state.analysis_result.is_structural_change
    /\ graph_state.retry_count = MAX_RETRIES
    /\ surgeon_calls = MAX_RETRIES + 1

\* C5: when the pipeline ends in Aborted the stored diagram is the one stored
\* when the invocation began, and the caller's next step neither changes it
\* nor, in the initial scan, takes the rejected candidate as the diagram it
\* carries forward and writes.
C5_AbortLeavesDiagram ==
    /\ []((p_pc = "end" /\ outcome = "Aborted") => persisted = before)
    /\ [][(p_pc = "end" /\ outcome = "Aborted") =>
             /\ persisted' = persisted
             /\ scan_mermaid' = scan_mermaid]_vars

\* C6: whatever the classifier and the generator do, an invocation ends in
\* Written, Skipped or Aborted; no exception leaves graph.invoke.
C6_NeverRaises ==
    /\ p_pc # "raised"
    /\ p_pc = "end" => outcome \in {"Written", "Skipped", "Aborted"}


\* C14: for every list of FileImpact, _calculate_impact_level returns
\* Critical when some entry is a broken import, however many entries there
\* are; otherwise None for no entry, Low for 1 or 2, Medium for 3 to 5 and
\* High for 6 or more.
C14_ImpactLevelBuckets ==
    impact_level # "unset" =>
        LET n == Len(impacts)
            broken == \E k \in DOMAIN impacts : impacts[k].impact_type = "broken_import"
        IN  /\ broken => impact_level = "critical"
            /\ ~broken /\ n = 0 => impact_level = "none"
            /\ ~broken /\ n \in 1..2 => impact_level = "low"
            /\ ~broken /\ n \in 3..5 => impact_level = "medium"
            /\ ~broken /\ n >= 6 => impact_level = "high"

\* A single broken import among six entries or more has been judged.
C14_Witness ==
    /\ impact_level = "critical"
    /\ Len(impacts) >= 6
    /\ Cardinality({k \in DOMAIN impacts : impacts[k].impact_type = "broken_import"}) = 1

\* C15: the session history lists the TrackedChanges most recent first.  A
\* call of track_change puts its record at index 0 (the first element) and
\* the records of the earlier calls follow it in the order they had.
C15_HistoryMostRecentFirst ==
    [][TrackChangeStep => SubSeq(changes', 2, Len(changes')) = changes]_vars

\* C16: the session history never holds more than a fixed maximum of
\* entries (the one maximum the program defines is MAX_RECENT_CHANGES): a
\* track_change on a full history evicts the oldest entry.
C16_HistoryIsCapped ==
    Len(changes) <= MAX_RECENT_CHANGES

\* process_change returns to the watcher.
WatchReturnStep == caller = "watch" /\ caller' = "idle"

\* C17: whatever the classifier, the diagram generator, the description
\* generator and graph.invoke itself do, process_change records exactly one
\* TrackedChange for the created or modified event it was given, and the
\* description of a modification is the template one unless the
\* description generator answered.
C17_CollaboratorFailureStillTracks ==
    [][WatchReturnStep =>
          /\ Len(changes') = Len(changes) + 1
          /\ Returned.description[1] \in {"New file created", "Modified", "llm"}]_vars

\* C18: the pipeline ends in Written only by a step taken from a state whose
\* latest validation found the candidate valid, and the text stored by that
\* step is exactly that candidate; and no step stores a text that fails
\* validation.
C18_WrittenOnlyWhenValid ==
    /\ [][outcome' = "Written" /\ outcome # "Written" =>
             /\ graph_state.is_valid_mermaid
             /\ TruthyText(graph_state.updated_mermaid)
             /\ validate_mermaid(graph_state.updated_mermaid).is_valid
             /\ persisted' = graph_state.updated_mermaid]_vars
    /\ [][persisted' # persisted =>
             /\ TruthyText(persisted')
             /\ validate_mermaid(persisted').is_valid]_vars

\* C19: when the classifier's step leaves no structural verdict (it reported
\* a non-structural change, or it failed with an error), the invocation ends
\* there in Skipped: the generator has not been called, there is no
\* candidate and the stored diagram is the one stored before.
C19_NonStructuralOrFailedSkips ==
    [][(p_pc = "analyst" /\ p_pc' # "analyst" /\ should_update(graph_state') # "update") =>
          /\ p_pc' = "end"
          /\ outcome' = "Skipped"
          /\ surgeon_calls' = 0
          /\ ~TruthyText(graph_state'.updated_mermaid)
          /\ persisted' = before]_vars

\* C20: from every reachable graph, add_file called twice in a row for one
\* path with the same content leaves imports and imported_by exactly as the
\* first call left them.
C20_AddFileIdempotent ==
    \A p \in GraphNames, c \in ContentsOver(GraphNames) :
        LET once == add_file(Graph, p, c)
        IN  add_file(once, p, c) = once

\* A graph left by add_file for a file with an import, in which some other
\* file holds a reverse edge too: adding the file again changes nothing.
C20_Witness ==
    \E p \in GraphNames, c \in ContentsOver(GraphNames) :
        /\ extract_imports(c) # {}
        /\ p \in DOMAIN imports
        /\ imports[p] = extract_imports(c)
        /\ \A m \in extract_imports(c) : m \in DOMAIN imported_by /\ p \in imported_by[m]
        /\ \E q \in GraphNames \ {p} : q \in DOMAIN imports /\ imports[q] # {}
        /\ add_file(Graph, p, c) = Graph

\* C21: the intent is the first match of the cascade: "test" in the file
\* name gives feature; a configuration file name gives config; a bug-fix
\* keyword in the text of an added or of a removed line gives bugfix; both
\* counts nonzero and added/removed between 0.8 and 1.2 gives refactor;
\* removed > 2 x added gives cleanup; added > removed gives feature; anything
\* else unknown.  40 added and 0 removed in service.py is a feature.
C21_IntentCascade ==
    intent # "unset" =>
        LET a == intent_args.stats.added
            r == intent_args.stats.removed
            dl == intent_args.diff_lines
            keyword == \E k \in DOMAIN dl :
                           dl[k].type \in {"add", "remove"} /\ dl[k].line = "fix"
        IN  intent =
              IF NameHasTest(intent_args.file_path) THEN "feature"
              ELSE IF NameIsConfig(intent_args.file_path) THEN "config"
              ELSE IF keyword THEN "bugfix"
              ELSE IF a > 0 /\ r > 0 /\ 4 * r <= 5 * a /\ 5 * a <= 6 * r THEN "refactor"
              ELSE IF r > 2 * a THEN "cleanup"
              ELSE IF a > r THEN "feature"
              ELSE "unknown"

\* The lines of the text validated, and those of them that are not blank.
Validated == validation # [is_valid |-> FALSE, errors |-> <<>>, warnings |-> <<>>]
NonBlank == {i \in DOMAIN mermaid_arg.lines :
                \E k \in DOMAIN mermaid_arg.lines[i] : mermaid_arg.lines[i][k] # " "}

\* C22: a text that is not empty is valid exactly when its first non-empty
\* line is graph or flowchart followed by one of the five orientations, it
\* has as many subgraph openers as lines holding nothing but end, it holds
\* no script-injection substring in any letter case, and its counts of "["
\* and "]" and of "(" and ")" agree.
C22_ValidExactlyWhenRulesHold ==
    (Validated /\ NonBlank # {}) =>
        LET lines == mermaid_arg.lines
            first == StripLine(lines[CHOOSE i \in NonBlank : \A j \in NonBlank : i <= j])
            directive == /\ Len(first) >= 3
                         /\ first[1] \in {"graph", "flowchart"}
                         /\ first[2] = " "
                         /\ first[3] \in {"TD", "TB", "LR", "RL", "BT"}
            openers == {i \in NonBlank : Head(StripLine(lines[i])) = "subgraph"}
            closers == {i \in NonBlank : StripLine(lines[i]) = <<"end">>}
            script == \E i \in DOMAIN lines : \E k \in DOMAIN lines[i] :
                          lines[i][k] \in {"<script", "<SCRIPT", "javascript:", "onclick",
                                           "OnClick", "onerror"}
        IN  validation.is_valid <=>
                /\ directive
                /\ Cardinality(openers) = Cardinality(closers)
                /\ ~script
                /\ CountInLines(lines, "[") = CountInLines(lines, "]")
                /\ CountInLines(lines, "(") = CountInLines(lines, ")")

\* A well-formed diagram but for an upper-case script tag has been judged
\* invalid, for that reason alone.
C22_Witness ==
    /\ Validated
    /\ ~validation.is_valid
    /\ validation.errors = << <<"dangerous", "<script">> >>
    /\ \E i \in DOMAIN mermaid_arg.lines : "<SCRIPT" \in {mermaid_arg.lines[i][k] : k \in DOMAIN mermaid_arg.lines[i]}

C24_EmptyInputOneError ==
    (Validated /\ NonBlank = {}) =>
        validation = [is_valid |-> FALSE, errors |-> << <<"Empty diagram">> >>, warnings |-> <<>>]

\* A text of several lines of white space only has been validated.
C24_Witness ==
    /\ Validated
    /\ NonBlank = {}
    /\ Len(mermaid_arg.lines) > 1
    /\ \E i \in DOMAIN mermaid_arg.lines : mermaid_arg.lines[i] # <<>>
    /\ Len(validation.errors) = 1

\* The observer delivers one raw event to the handler.
RawEventStep == raw_seen' = raw_seen + 1

\* C25: a raw event is dropped before coalescing unless it is a file event
\* with a watched extension and no ignored path segment.  Every raw event
\* either goes on to be scheduled, and then it is such an event, or leaves
\* the pending events, the timer and every timer thread as they were.
C25_FilteredEventsChangeNothing ==
    [][RawEventStep =>
         IF obs_pc' = "schedule"
         THEN /\ src_path'.suffix \in {".py", ".js", ".jsx", ".ts", ".tsx"}
              /\ \A k \in DOMAIN src_path'.parts : src_path'.parts[k] \notin IGNORE_PATTERNS
              /\ src_path' # PathOf(<<"src", "pkg.py">>, ".py")
         ELSE UNCHANGED <<pending_events, timer, timers, obs_pc, src_path>>]_vars

\* Two raw events have been delivered and one of them was dropped: one
\* event is pending and the timer started for it is waiting, due a debounce
\* interval after it.
C25_Witness ==
    /\ raw_seen = 2
    /\ obs_pc = "idle"
    /\ Len(pending_events) = 1
    /\ \A p \in AcceptedPaths :
          raw_stat[p].count = IF p = pending_events[1].path THEN 1 ELSE 0
    /\ timer = 1
    /\ Len(timers) = 1
    /\ timers[1].state = "waiting"
    /\ timers[1].deadline = pending_events[1].at + Debounce

\* The handler of src_path is at its call of _schedule_callback.
SchedulesFor(path) == obs_pc = "schedule" /\ src_path = path /\ obs_pc' = "idle"

\* C13: coalescing is per path.  When the handler of an event for a path q
\* schedules its emission while an event of another path p is pending and
\* the timer due to emit it is still waiting, that timer keeps waiting with
\* the deadline it had; and the calls of the callback made by one timer are
\* all for one path.
C13_CoalescingIsPerPath ==
    [][/\ \A q \in AcceptedPaths :
             (/\ SchedulesFor(q)
              /\ \E i \in DOMAIN pending_events : pending_events[i].path # q
              /\ timer # 0
              /\ timers[timer].state = "waiting")
             => timers'[timer] = timers[timer]
        /\ \A i, j \in DOMAIN emitted' :
             emitted'[i].timer = emitted'[j].timer => emitted'[i].path = emitted'[j].path]_vars

(***************************************************************************)
(* UmbraWatcher.                                                           *)
(***************************************************************************)

\* A step that is a whole call of start().
StartStep == calls' = calls + 1 /\ api_pc' = "idle"

\* C11: start() on a watcher that is already running raises RuntimeError and
\* leaves the observer, the handler, its pending events, its timer and its
\* timer threads as they were; the watcher is still running afterwards.
C11_StartTwiceRaises ==
    [][(StartStep /\ observer # "none") =>
          /\ api_result' = "RuntimeError"
          /\ UNCHANGED <<observer, has_handler, gen_start, old_pending, pending_events,
                         timer, timers, obs_pc, src_path, running, emitted>>
          /\ is_running']_vars

C11_Witness ==
    /\ api_result = "RuntimeError"
    /\ is_running
    /\ pending_events # <<>>
    /\ timer # 0
    /\ timers[timer].state = "waiting"

\* stop() has returned and start() has not been called since.
StopReturned == api_pc = "idle" /\ api_result = "stopped"

\* C12: once stop() has returned no debounce timer is pending and the callback
\* is not called again.
C12_StopLeavesNothingPending ==
    StopReturned =>
        /\ LiveTimers = {}
        /\ Len(emitted) = stop_mark

\* C26: is_running() is false before the first start(), true after a start()
\* that succeeded and false after stop(); stop() on a watcher that does not
\* run changes nothing and raises nothing; start() after stop() succeeds
\* with a handler that has no pending event and no timer.
C26_RunningFollowsStartAndStop ==
    /\ [](calls = 0 => ~is_running)
    /\ []((api_pc = "idle" /\ api_result = "started") => is_running)
    /\ []((api_pc = "idle" /\ api_result = "stopped") => ~is_running)
    /\ [][(StartStep /\ ~is_running) =>
             /\ api_result' = "started"
             /\ is_running'
             /\ has_handler'
             /\ pending_events' = <<>>
             /\ timer' = 0]_vars
    /\ [][(api_pc' # api_pc /\ ~is_running /\ api_result \in {"none", "stopped"}) =>
             /\ ~is_running'
             /\ api_result' \in {api_result, "stopped"}
             /\ UNCHANGED <<has_handler, pending_events, timer, timers, running, emitted>>]_vars

\* start(), stop() and start() again: the watcher runs with an empty
\* handler, while the handler of the first run had an event pending.
C26_Witness ==
    /\ calls = 3
    /\ api_result = "started"
    /\ is_running
    /\ old_pending # <<>>
    /\ pending_events = <<>>
    /\ timer = 0

\* A turn of _fire_callback's loop ends in the except clause, in thread t.
RaisedIn(t) == t \in DOMAIN timers /\ timers'[t].raised > timers[t].raised

\* The calls of self.callback made so far by one timer thread.
EmittedBy(t) == SelectSeq(emitted, LAMBDA e : e.timer = t)

\* C27: a callback that raises does not stop the watcher.  The step in which
\* the exception is caught leaves the thread's remaining events, the pending
\* events, the current timer and the observer as they were, and the thread
\* goes on with its next event; a thread in which a callback raised ends only
\* with no event left, it delivers each remaining event by one callback call,
\* and no path twice; and while a callback has raised, an accepted raw event
\* is still put among the pending events and a new timer started for it.
C27_CallbackFailureIsContained ==
    /\ [][\A t \in DOMAIN timers : RaisedIn(t) =>
             /\ timers'[t].events = timers[t].events
             /\ timers'[t].state = IF timers[t].events = <<>> THEN "done" ELSE "firing"
             /\ t \notin running'
             /\ UNCHANGED <<pending_events, timer, obs_pc, emitted, observer, has_handler>>]_vars
    /\ [](\A t \in DOMAIN timers : timers[t].raised > 0 =>
             /\ timers[t].state = "done" => timers[t].events = <<>>
             /\ \A i, j \in DOMAIN EmittedBy(t) :
                    EmittedBy(t)[i].path = EmittedBy(t)[j].path => i = j
             /\ \A i \in DOMAIN EmittedBy(t), k \in DOMAIN timers[t].events :
                    EmittedBy(t)[i].path # timers[t].events[k].path)
    /\ [][\A t \in DOMAIN timers :
             (timers[t].raised > 0 /\ timers'[t].events # timers[t].events) =>
                 /\ timers[t].events # <<>>
                 /\ timers'[t].events = Tail(timers[t].events)
                 /\ Len(emitted') = Len(emitted) + 1
                 /\ emitted'[Len(emitted')].path = Head(timers[t].events).path
                 /\ emitted'[Len(emitted')].timer = t]_vars
    /\ [][((\E t \in DOMAIN timers : timers[t].raised > 0) /\ RawEventStep
           /\ obs_pc' = "schedule") =>
             \E k \in DOMAIN pending_events' :
                 /\ pending_events'[k].path = src_path'
                 /\ pending_events'[k].at = now]_vars
    /\ [][((\E t \in DOMAIN timers : timers[t].raised > 0) /\ obs_pc = "schedule"
           /\ obs_pc' = "idle") =>
             /\ timer' = Len(timers')
             /\ timers'[timer'].state = "waiting"
             /\ timers'[timer'].deadline = now + Debounce]_vars

\* The first callback of a firing of two events has raised, the second event
\* of the firing has been delivered all the same, and an event raised after
\* that firing has been delivered by a later timer.
C27_Witness ==
    \E t1, t2 \in DOMAIN timers :
        /\ t1 < t2
        /\ timers[t1].raised = 1 /\ timers[t1].state = "done"
        /\ Len(EmittedBy(t1)) = 2
        /\ Len(EmittedBy(t2)) = 1
        /\ timers[t2].deadline - Debounce >= timers[t1].deadline
        /\ observer = "alive"

-----------------------------------------------------------------------------
(* More claims about the DependencyGraph and the ChangeTracker.            *)

\* The modules that hold file_path in their imported_by set, in graph g.
ReverseEdgesOf(g, file_path) ==
    {m \in DOMAIN g.imported_by : file_path \in g.imported_by[m]}

\* C28: after add_file(p, content) from any reachable graph, imports[p] is
\* the import list of the content and the modules whose imported_by set
\* holds p are exactly those of that list (the reverse edges of an earlier
\* import list of p are gone).
C28_AddFileReplacesReverseEdges ==
    \A p \in GraphNames, c \in ContentsOver(GraphNames) :
        LET after == add_file(Graph, p, c)
        IN  /\ after.imports[p] = extract_imports(c)
            /\ ReverseEdgesOf(after, p) = extract_imports(c)

\* C29: after remove_file(p) from any reachable graph, p has no entry in
\* imports and is in no imported_by set, and nothing else has changed: every
\* other file q keeps its imports and is still in imported_by[m] for every m
\* it imports and was a reverse edge of, m = p included, and every other
\* imported_by set has lost nothing but p.
C29_RemoveFileRemovesOnlyTheFile ==
    \A p \in GraphNames :
        LET after == remove_file(Graph, p)
        IN  /\ p \notin DOMAIN after.imports
            /\ ReverseEdgesOf(after, p) = {}
            /\ \A q \in DOMAIN imports \ {p} :
                  /\ q \in DOMAIN after.imports
                  /\ after.imports[q] = imports[q]
                  /\ \A m \in imports[q] :
                        q \in Get(imported_by, m) => q \in Get(after.imported_by, m)
            /\ \A m \in GraphNames \ {p} :
                  Get(after.imported_by, m) = Get(imported_by, m) \ {p}

\* The FileImpacts of one kind for the dependents of a path in a reverse index.
ImpactsOf(ib, file_path, impact_type) ==
    { [file_path |-> dep, impact_type |-> impact_type]
      : dep \in get_dependents(ib, file_path) }

\* C30: the TrackedChange track_change returns for a deletion holds one
\* broken_import FileImpact for each dependent the path had in the graph
\* before its removal; for a creation or a modification it holds one imports
\* FileImpact for each dependent the path has in the graph after add_file.
C30_ImpactReadsTheRightGraph ==
    [][TrackChangeStep =>
          IF Returned.change_type = "deleted"
          THEN Returned.impacted_files
                   = ImpactsOf(imported_by, Returned.file_path, "broken_import")
          ELSE Returned.impacted_files
                   = ImpactsOf(imported_by', Returned.file_path, "imports")]_vars

\* C31: from every reachable graph, track_change for a creation or a
\* modification leaves imports[path] equal to the import list of the new
\* content, whatever the content (for a content with no import, the empty
\* one included, no imported_by set holds the path any more); track_change
\* for a deletion leaves the path with no entry in imports and in no
\* imported_by set.
C31_TrackChangeUpdatesGraph ==
    \A p \in Names :
        /\ \A ty \in {"created", "modified"}, c \in TrackerContents :
              LET after == track_change(Graph, p, ty, c, NoDiff, "unavailable").graph
              IN  /\ p \in DOMAIN after.imports
                  /\ after.imports[p] = extract_imports(c)
                  /\ extract_imports(c) = {} => ReverseEdgesOf(after, p) = {}
        /\ LET after == track_change(Graph, p, "deleted", NoneSource, NoDiff,
                                     "unavailable").graph
           IN  /\ p \notin DOMAIN after.imports
               /\ ReverseEdgesOf(after, p) = {}

\* C32: initialize inserts every file of the snapshot into the graph and
\* records no change: the step leaves the history, and the impact results,
\* as they were, and after it imports has an entry for every path of the
\* snapshot, holding the import list of that file.
C32_InitializeIsNotAChange ==
    [][\A files \in RingSnapshots : Initialize(files) =>
          /\ changes' = changes
          /\ UNCHANGED <<impacts, impact_level>>
          /\ DOMAIN imports' = DOMAIN imports \cup DOMAIN files
          /\ \A f \in DOMAIN files : imports'[f] = extract_imports(files[f])]_vars

\* initialize has just run on a snapshot of every file, some with an import.
C32_Witness ==
    /\ initialized
    /\ changes = <<>>
    /\ DOMAIN imports = Names
    /\ \E f \in Names : imports[f] # {}
    /\ \E f \in Names : imports[f] = {}

-----------------------------------------------------------------------------
(* More claims about the debounced handler.                                *)

\* A timer thread calls self.callback.
EmitStep == Len(emitted') = Len(emitted) + 1

\* C33: under every interleaving of the observer thread and the timer
\* threads, the callback is called for an event only when the debounce
\* interval has passed since that event, the last accepted one of its path
\* when the thread took it; and the step in which a thread takes the pending
\* events leaves no event pending.
C33_EmitsOnlyAfterDebounce ==
    /\ [][EmitStep =>
             \E t \in DOMAIN timers :
                 /\ emitted'[Len(emitted')].timer = t
                 /\ timers[t].events # <<>>
                 /\ now - Head(timers[t].events).at >= Debounce]_vars
    /\ [][\A t \in DOMAIN timers :
             (timers[t].state = "expired" /\ timers'[t].state = "firing") =>
                 pending_events' = <<>>]_vars

-----------------------------------------------------------------------------
(* More claims about the pipeline.                                         *)

\* The surgeon node has run for a structural change and its model call
\* failed: the node raised, or it caught the error and left None.
GenerationFailed ==
    /\ p_pc = "surgeon" /\ p_pc' # "surgeon"
    /\ should_update(graph_state) = "update"
    /\ p_pc' = "raised" \/ graph_state'.updated_mermaid = NoneText

\* C34: a failed generation, in any attempt, leaves no candidate (the one of
\* an earlier attempt is gone); the validator then finds the attempt invalid
\* and the pipeline retries while retry_count < MAX_RETRIES and aborts
\* otherwise; the writer is never reached from it.
C34_FailedGenerationIsInvalid ==
    [][GenerationFailed =>
          /\ p_pc' = "validator"
          /\ ~TruthyText(graph_state'.updated_mermaid)
          /\ ~validator_node(graph_state').is_valid_mermaid
          /\ check_validity(validator_node(graph_state')) =
                IF graph_state.retry_count < MAX_RETRIES THEN "retry" ELSE "abort"]_vars

\* surgeon_node calls llm.invoke.
SurgeonCallStep == surgeon_calls' = surgeon_calls + 1

\* C35: each time the generator is invoked again after a failed validation,
\* the prompt it is given holds the validation error of the failed attempt;
\* the prompt of the first invocation holds no validation error.
C35_RetryPromptCarriesError ==
    [][SurgeonCallStep =>
          IF graph_state.retry_count > 0
          THEN \E k \in DOMAIN prompt' : prompt'[k] = graph_state.validation_error
          ELSE \A k \in DOMAIN prompt' : prompt'[k].kind # "str"]_vars

-----------------------------------------------------------------------------
(* More claims about the validator.                                        *)

\* The entries of the validated text's error list that are equal to e.
ErrorCount(e) == Cardinality({k \in DOMAIN validation.errors : validation.errors[k] = e})

\* C36: for a text that is not empty every rule is checked whatever the
\* others found: the error list holds one error for the directive when the
\* first line is not one, one for the subgraphs when openers and closers
\* differ in number, naming both numbers, one for each script-injection
\* substring present, one for the square brackets and one for the
\* parentheses when their counts differ, naming both counts; and no other.
C36_ErrorsAccumulate ==
    (Validated /\ NonBlank # {}) =>
        LET lines == mermaid_arg.lines
            first == StripLine(lines[CHOOSE i \in NonBlank : \A j \in NonBlank : i <= j])
            directive == /\ Len(first) >= 3
                         /\ first[1] \in {"graph", "flowchart"}
                         /\ first[2] = " "
                         /\ first[3] \in {"TD", "TB", "LR", "RL", "BT"}
            openers == Cardinality({i \in NonBlank : Head(StripLine(lines[i])) = "subgraph"})
            closers == Cardinality({i \in NonBlank : StripLine(lines[i]) = <<"end">>})
            tokens == UNION {{lines[i][k] : k \in DOMAIN lines[i]} : i \in DOMAIN lines}
            present == { <<"<script", {"<script", "<SCRIPT"}>>,
                         <<"javascript:", {"javascript:"}>>,
                         <<"onclick", {"onclick", "OnClick"}>>,
                         <<"onerror", {"onerror"}>> }
            scripts == {sp \in present : sp[2] \cap tokens # {}}
            sq == <<CountInLines(lines, "["), CountInLines(lines, "]")>>
            rd == <<CountInLines(lines, "("), CountInLines(lines, ")")>>
            B(cond) == IF cond THEN 1 ELSE 0
        IN  /\ ErrorCount(<<"directive">>) = B(~directive)
            /\ ErrorCount(<<"Unbalanced subgraphs", openers, closers>>)
                  = B(openers # closers)
            /\ \A sp \in present : ErrorCount(<<"dangerous", sp[1]>>) = B(sp \in scripts)
            /\ ErrorCount(<<"Unbalanced square brackets", sq[1], sq[2]>>) = B(sq[1] # sq[2])
            /\ ErrorCount(<<"Unbalanced parentheses", rd[1], rd[2]>>) = B(rd[1] # rd[2])
            /\ Len(validation.errors)
                  = B(~directive) + B(openers # closers) + Cardinality(scripts)
                      + B(sq[1] # sq[2]) + B(rd[1] # rd[2])

\* A text with no directive, a subgraph left open and a square bracket left
\* open has been validated: three errors, the subgraph one with 1 and 0.
C36_Witness ==
    /\ Validated
    /\ Len(validation.errors) = 3
    /\ validation.errors[1] = <<"directive">>
    /\ validation.errors[2] = <<"Unbalanced subgraphs", 1, 0>>
    /\ validation.errors[3] = <<"Unbalanced square brackets", 1, 0>>

-----------------------------------------------------------------------------
(* The stored diagram during a watch session.                              *)

\* C37: in a watch session, a step that changes the stored diagram, taken
\* while the stored diagram is valid, stores a text that validate_mermaid
\* accepts: after any sequence of created, modified and deleted events the
\* stored diagram is still valid, the deletion's removal of the lines that
\* name the deleted file included.
C37_StoredDiagramStaysValid ==
    [][( /\ caller \in {"idle", "watch"} /\ caller' \in {"idle", "watch"}
         /\ validate_mermaid(persisted).is_valid
         /\ persisted' # persisted )
       => ( /\ TruthyText(persisted')
            /\ validate_mermaid(persisted').is_valid )]_vars

-----------------------------------------------------------------------------
(* A path among its own dependents.                                        *)

\* file_path lies on a cycle of reverse edges: some walk of one edge or more
\* leads from it back to it.
OnCycle(ib, file_path) ==
    \E k \in 1..NumNames : \E walk \in [0..k -> Names] :
        /\ walk[0] = file_path
        /\ walk[k] = file_path
        /\ \A i \in 0..(k - 1) : walk[i + 1] \in Get(ib, walk[i])

\* C38: get_dependents(path) holds path itself exactly when path lies on a
\* cycle of reverse edges; on a graph with no cycle through it the path is
\* not among its dependents and no FileImpact of _analyze_impact is for the
\* path itself, so that the impact level counts the other files only.
C38_SelfDependentOnlyOnCycle ==
    q_pc = "done" =>
        /\ q_path \in dependents <=> OnCycle(imported_by, q_path)
        /\ ~OnCycle(imported_by, q_path) =>
              \A ty \in {"modified", "deleted"} :
                  LET found == analyze_impact(Graph, q_path, ty)
                  IN  /\ \A impact \in found : impact.file_path # q_path
                      /\ Cardinality(found) = Cardinality(dependents \ {q_path})

\* A call on a graph without cycle has returned two dependents or more, the
\* queried path not among them.
C38_Witness ==
    /\ q_pc = "done"
    /\ \A n \in Names : ~OnCycle(imported_by, n)
    /\ Cardinality(dependents) >= 2
    /\ q_path \notin dependents

\* C39: in a watch session the tracker's graph has been seeded by initialize
\* when the first change is tracked, with or without the initial scan: at
\* the first call of track_change the tracker is initialized and imports has
\* an entry for every code file of the project.
C39_GraphSeededBeforeFirstChange ==
    [][(TrackChangeStep /\ changes = <<>>) =>
          /\ initialized
          /\ \E n \in 1..MaxScanFiles : {NameList[i] : i \in 1..n} \subseteq DOMAIN imports]_vars

-----------------------------------------------------------------------------
(* Loss and starvation of events.                                          *)

\* C40: no accepted event is lost or starved.  Once every timer thread has
\* ended, the callback has been called with the last kind of event of every
\* path that had an accepted raw event; and scheduling the callback for an
\* event of one path never postpones the pending event of another path:
\* some timer that can still fire is due no later than the earliest one was.
C40_NoEventLostOrStarved ==
    /\ [](Quiescent =>
            \A p \in AcceptedPaths :
                raw_stat[p].count >= 1 =>
                    \E i \in DOMAIN emitted :
                        /\ emitted[i].path = p
                        /\ emitted[i].event_type = raw_stat[p].event_type)
    /\ [][\A q \in AcceptedPaths :
            \A k \in DOMAIN pending_events :
                (SchedulesFor(q) /\ pending_events[k].path # q /\ LiveTimers # {}) =>
                    \E t \in DOMAIN timers' :
                        /\ timers'[t].state \in {"waiting", "expired"}
                        /\ \A u \in LiveTimers : timers'[t].deadline <= timers[u].deadline]_vars

=============================================================================
